---- MODULE Spec2Model ----
(***************************************************************************)
(* Model of the Ramadan campaign tracker: the label points parser, the     *)
(* issue normalizer, the aggregation engine (global stats, contributor     *)
(* leaderboard, daily counts), the filter/sort engine and the application  *)
(* event handlers that drive them.                                         *)
(*                                                                         *)
(* Time is counted in ticks since the Unix epoch (tick 0); a calendar day  *)
(* has TicksPerDay ticks.  Strings that the code scans (label names) are   *)
(* sequences of one-character strings.                                     *)
(***************************************************************************)
EXTENDS Integers, Sequences, FiniteSets, TLC

VARIABLES
    labels,            \* input of parsePointsFromLabels (an issue's labels field)
    cfgFile,           \* contents of projects.json
    remote,            \* what the GitHub API answers, per configured project
    tz,                \* the browser's local time zone
    heatRange,         \* [start, end]: the heatmap window handed to calculateDailyCounts
    config,            \* state.config
    projects,          \* state.projects
    contributors,      \* state.contributors
    filters,           \* state.filters
    expandedProjects,  \* state.expandedProjects
    activeTab,         \* state.activeTab
    isLoading,         \* state.isLoading
    boot,              \* where init() stands
    inflight,          \* the fetchData calls awaiting the network, oldest first
    view,              \* what the ui module holds and has put on the page
    modal,             \* the issue modal, and the openModal calls awaiting comments
    call               \* the last application of a core function: [op, args, result]

vars == <<labels, cfgFile, remote, tz, heatRange, config, projects,
          contributors, filters, expandedProjects, activeTab, isLoading,
          boot, inflight, view, modal, call>>

\* ------------------------------------------------------------------ bounds

MaxLabels == 2
MaxIssues == 3
MaxDailyItems == 2
MaxDay == 3
TicksPerDay == 2

\* ------------------------------------------------------- JavaScript values

Null == [tag |-> "null", v |-> 0]
Undefined == [tag |-> "undefined", v |-> 0]
DateStr(t) == [tag |-> "date", v |-> t]

\* !!x for a timestamp field: a non-empty date string is truthy
Truthy(x) == x.tag = "date"

\* new Date(x): null is the epoch, undefined is an Invalid Date (NaN)
NewDate(x) ==
    CASE x.tag = "date" -> [valid |-> TRUE, t |-> x.v]
      [] x.tag = "null" -> [valid |-> TRUE, t |-> 0]
      [] OTHER -> [valid |-> FALSE, t |-> 0]

\* a >= b on Date objects: a comparison with NaN is false
DateGE(a, b) == a.valid /\ b.valid /\ a.t >= b.t

\* a <= b on Date objects
DateLE(a, b) == a.valid /\ b.valid /\ a.t <= b.t

\* d.toISOString().split('T')[0]: the UTC calendar day of a valid Date
IsoDay(d) == d.t \div TicksPerDay

\* the indices i of s, in order, with Test(s[i]) (the scan of Array.prototype.find)
SelectIdx(s, Test(_)) ==
    SelectSeq([i \in 1..Len(s) |-> i], LAMBDA i : Test(s[i]))

RECURSIVE SumSeq(_)
SumSeq(s) == IF s = <<>> THEN 0 ELSE Head(s) + SumSeq(Tail(s))

RECURSIVE Flatten(_)
\* Array.prototype.flatMap over a sequence of sequences
Flatten(ss) == IF ss = <<>> THEN <<>> ELSE Head(ss) \o Flatten(Tail(ss))

Range(s) == {s[i] : i \in 1..Len(s)}

\* all sequences over S of length 0..n
SeqsUpTo(S, n) == UNION {[1..k -> S] : k \in 0..n}

\* ------------------------------------------------------ label points parser

Digits == {"0", "1", "2", "3", "4", "5", "6", "7", "8", "9"}

\* \s, ':' and '-' of the character class [\s:-]
Separators == {" ", ":", "-"}

DigitVal(c) ==
    CASE c = "0" -> 0 [] c = "1" -> 1 [] c = "2" -> 2 [] c = "3" -> 3
      [] c = "4" -> 4 [] c = "5" -> 5 [] c = "6" -> 6 [] c = "7" -> 7
      [] c = "8" -> 8 [] c = "9" -> 9

\* the i flag: letters compare by their lower-case form
LowerChar(c) ==
    CASE c = "P" -> "p" [] c = "O" -> "o" [] c = "I" -> "i" [] c = "N" -> "n"
      [] c = "T" -> "t" [] c = "S" -> "s" [] OTHER -> c

Lower(s) == [i \in 1..Len(s) |-> LowerChar(s[i])]

\* the alternatives of (points?|poins|pts)
PointWords ==
    { <<"p", "o", "i", "n", "t">>, <<"p", "o", "i", "n", "t", "s">>,
      <<"p", "o", "i", "n", "s">>, <<"p", "t", "s">> }

RECURSIVE RunLen(_, _, _)
\* length of the longest run of characters of class C starting at position i
RunLen(s, i, C) ==
    IF i > Len(s) \/ s[i] \notin C THEN 0 ELSE 1 + RunLen(s, i + 1, C)

\* /^(\d+)[\s:-]*(points?|poins|pts)?$/i.test(name)
TestNumberFirst(name) ==
    LET d == RunLen(name, 1, Digits)
        s == RunLen(name, d + 1, Separators)
        rest == SubSeq(name, d + s + 1, Len(name))
    IN  d >= 1 /\ (rest = <<>> \/ Lower(rest) \in PointWords)

\* /^(pts|points?|poins)[\s:-]*(\d+)$/i.test(name)
TestWordFirst(name) ==
    \E w \in PointWords :
        /\ Len(name) > Len(w)
        /\ Lower(SubSeq(name, 1, Len(w))) = w
        /\ LET s == RunLen(name, Len(w) + 1, Separators)
               d == RunLen(name, Len(w) + s + 1, Digits)
           IN  d >= 1 /\ Len(w) + s + d = Len(name)

RECURSIVE FirstDigitAt(_, _)
\* index of the first digit of s at or after i, 0 when there is none
FirstDigitAt(s, i) ==
    IF i > Len(s) THEN 0
    ELSE IF s[i] \in Digits THEN i ELSE FirstDigitAt(s, i + 1)

RECURSIVE ParseInt(_)
\* parseInt(ds, 10) of a run of digits
ParseInt(ds) ==
    IF ds = <<>> THEN 0
    ELSE 10 * ParseInt(SubSeq(ds, 1, Len(ds) - 1)) + DigitVal(ds[Len(ds)])

\* name.match(/\d+/): the first run of digits, <<>> when there is none
MatchDigits(name) ==
    LET i == FirstDigitAt(name, 1)
    IN  IF i = 0 THEN <<>> ELSE SubSeq(name, i, i + RunLen(name, i, Digits) - 1)

IsPointLabel(l) == TestNumberFirst(l.name) \/ TestWordFirst(l.name)

\* a labels field: undefined, or an array of {name}
NoLabels == [tag |-> "undefined", items |-> <<>>]
LabelArray(items) == [tag |-> "array", items |-> items]

\* faulty variant: the last matching label decides
parsePointsFromLabels_last(ls) ==
    IF ls.tag # "array" \/ Len(ls.items) = 0 THEN 0
    ELSE LET hits == SelectIdx(ls.items, IsPointLabel)
         IN  IF hits = <<>> THEN 0
             ELSE ParseInt(MatchDigits(ls.items[hits[Len(hits)]].name))

\* faulty variant: -1 marks an issue without a point label
parsePointsFromLabels_sentinel(ls) ==
    IF ls.tag # "array" \/ Len(ls.items) = 0 THEN 0 - 1
    ELSE LET hits == SelectIdx(ls.items, IsPointLabel)
         IN  IF hits = <<>> THEN 0 - 1
             ELSE ParseInt(MatchDigits(ls.items[hits[1]].name))

parsePointsFromLabels(ls) ==
    IF ls.tag # "array" \/ Len(ls.items) = 0 THEN 0
    ELSE LET hits == SelectIdx(ls.items, IsPointLabel)
         IN  IF hits = <<>> THEN 0
             ELSE LET m == MatchDigits(ls.items[hits[1]].name)
                  IN  IF m # <<>> THEN ParseInt(m) ELSE 0

\* ------------------------------------------------------- issue normalizer

\* {...rec, ...more}: the fields of more are added to rec, replacing its own
Spread(rec, more) == more @@ rec

\* issue.assignee is null or a user object; <<>> stands for null, <<u>> for
\* the user with login u
HasAssignee(issue) == issue.assignee # <<>>

\* faulty variant: the threshold test is left out
KeepIssue_all(issue, thresholdDate) == TRUE

\* the filter callback of processIssues
KeepIssue(issue, thresholdDate) ==
    IF issue.state = "closed"
    THEN DateGE(NewDate(issue.closed_at), thresholdDate)
    ELSE TRUE

processIssues(issues, thresholdDate) ==
    LET processedIssues ==
            [i \in 1..Len(issues) |->
                Spread(issues[i], [isPR |-> issues[i].pull_request,
                                   points |-> parsePointsFromLabels(issues[i].labels)])]
    IN  SelectSeq(processedIssues, LAMBDA issue : KeepIssue(issue, thresholdDate))

\* fetchProjectIssues: the body of an ok response, [] for anything else
fetchProjectIssues(response) ==
    IF response.status = "ok" THEN response.body ELSE <<>>

\* the statistics block of fetchAllProjectsData and of applyFilters
IssueStats(issues) ==
    [open |-> Len(SelectSeq(issues, LAMBDA i : i.state = "open")),
     closed |-> Len(SelectSeq(issues, LAMBDA i : i.state = "closed")),
     assigned |-> Len(SelectSeq(issues, LAMBDA i : HasAssignee(i))),
     total |-> Len(issues),
     points |-> SumSeq([k \in 1..Len(issues) |-> issues[k].points]),
     comments |-> SumSeq([k \in 1..Len(issues) |-> issues[k].comments])]

\* the async callback of fetchAllProjectsData for one configured project
FetchProject(project, thresholdDate, answer) ==
    LET issuesResponse == fetchProjectIssues(answer.issues)
        processedIssues == processIssues(issuesResponse, thresholdDate)
        issuesOnly == SelectSeq(processedIssues, LAMBDA i : ~i.isPR)
        prsOnly ==
            IF answer.pulls.status = "ok"
            THEN SelectSeq(answer.pulls.body,
                           LAMBDA pr : IF pr.state = "closed"
                                       THEN DateGE(NewDate(pr.closed_at), thresholdDate)
                                       ELSE TRUE)
            ELSE <<>>
    IN  Spread(project, [issues |-> issuesOnly, prs |-> prsOnly,
                         stats |-> IssueStats(issuesOnly)])

\* Promise.all in the order the callbacks settle in
PromiseAll_inSettlementOrder(values, settled) ==
    [k \in 1..Len(values) |-> values[settled[k]]]

\* Promise.all(promises): the values of the promises in the order of the
\* promises, whatever the order settled (a permutation of their indexes)
\* they were fulfilled in
PromiseAll(values, settled) ==
    [k \in 1..Len(values) |-> values[k]]

\* fetchAllProjectsData when the callbacks of the projects settle in the
\* order settled
fetchAllProjectsDataSettling(cfgProjects, settings, answers, settled) ==
    LET thresholdDate == NewDate(settings.thresholdDate)
    IN  PromiseAll([p \in 1..Len(cfgProjects) |->
                       FetchProject(cfgProjects[p], thresholdDate, answers[p])],
                   settled)

fetchAllProjectsData(cfgProjects, settings, answers) ==
    fetchAllProjectsDataSettling(cfgProjects, settings, answers,
                                 [p \in 1..Len(cfgProjects) |-> p])

\* a response with response.ok false (403 or 429 when rate limited, 404, 5xx)
FailedResponse == [status |-> "http-error", body |-> <<>>]

\* a fetch() that rejects: the network is down, the request is blocked
RejectedResponse == [status |-> "rejected", body |-> <<>>]

\* a response with response.ok true whose JSON is not an array
NotAListResponse == [status |-> "ok-not-array", body |-> <<>>]

\* fetchAllProjectsData rejects: fetchProjectIssues hands the JSON of an ok
\* response on as it is, and processIssues calls issues.map on it outside any
\* try block; the same JSON from the pulls endpoint is caught
fetchAllProjectsDataRejects(answers) ==
    \E p \in 1..Len(answers) : answers[p].issues.status = "ok-not-array"

\* ------------------------------------------------------ aggregation engine

\* the closedSinceThreshold callback of calculateGlobalStats, and the same
\* test in buildContributorLeaderboard
ClosedSince(i, thresholdDate) ==
    IF i.state # "closed" \/ ~Truthy(i.closed_at) THEN FALSE
    ELSE DateGE(NewDate(i.closed_at), NewDate(thresholdDate))

AllIssues(projs) == Flatten([p \in 1..Len(projs) |-> projs[p].issues])

PointsOf(issues) == SumSeq([k \in 1..Len(issues) |-> issues[k].points])

\* faulty variant: the total counts the points still open, not every issue
calculateGlobalStats_openTotal(projs, thresholdDate) ==
    LET allIssues == AllIssues(projs)
        closedSinceThreshold == SelectSeq(allIssues, LAMBDA i : ClosedSince(i, thresholdDate))
    IN  [open |-> Len(SelectSeq(allIssues, LAMBDA i : i.state = "open")),
         withComments |-> Len(SelectSeq(allIssues, LAMBDA i : i.comments > 0)),
         withAssignees |-> Len(SelectSeq(allIssues, LAMBDA i : HasAssignee(i))),
         closedSince |-> Len(closedSinceThreshold),
         totalPoints |-> PointsOf(SelectSeq(allIssues, LAMBDA i : i.state = "open")),
         collectedPoints |-> PointsOf(closedSinceThreshold)]

calculateGlobalStats(projs, thresholdDate) ==
    LET allIssues == AllIssues(projs)
        openIssues == SelectSeq(allIssues, LAMBDA i : i.state = "open")
        issuesWithComments == SelectSeq(allIssues, LAMBDA i : i.comments > 0)
        issuesWithAssignees == SelectSeq(allIssues, LAMBDA i : HasAssignee(i))
        closedSinceThreshold == SelectSeq(allIssues, LAMBDA i : ClosedSince(i, thresholdDate))
    IN  [open |-> Len(openIssues),
         withComments |-> Len(issuesWithComments),
         withAssignees |-> Len(issuesWithAssignees),
         closedSince |-> Len(closedSinceThreshold),
         totalPoints |-> PointsOf(allIssues),
         collectedPoints |-> PointsOf(closedSinceThreshold)]

\* new Map entry of buildContributorLeaderboard
NewContributor(username) ==
    [username |-> username,
     assignedIssues |-> <<>>,
     closedIssuesWithPoints |-> <<>>,
     totalPoints |-> 0,
     closedCount |-> 0,
     assignedCount |-> 0]

\* faulty variant: the map is keyed by the assignee object, which is a fresh
\* object in every issue record
ContributorIndex_byObject(entries, username) == 0

\* contributors.has(username) / contributors.get(username): the position of
\* the entry in insertion order, 0 when the map has none
ContributorIndex(entries, username) ==
    IF \E k \in 1..Len(entries) : entries[k].username = username
    THEN CHOOSE k \in 1..Len(entries) : entries[k].username = username
    ELSE 0

\* faulty variant: an issue is counted for its assignee only while it is open
Credit_openOnly(c, issue, project, thresholdDate) ==
    LET item == Spread(issue, [projectName |-> project.name,
                               owner |-> project.owner, repo |-> project.repo])
    IN  [c EXCEPT !.assignedIssues = Append(@, item),
                  !.assignedCount = IF issue.state = "open" THEN @ + 1 ELSE @]

\* faulty variant: closedCount is raised inside the points test
Credit_closedCountIfScored(c, issue, project, thresholdDate) ==
    LET item == Spread(issue, [projectName |-> project.name,
                               owner |-> project.owner, repo |-> project.repo])
        closed == /\ issue.state = "closed" /\ Truthy(issue.closed_at)
                  /\ DateGE(NewDate(issue.closed_at), NewDate(thresholdDate))
        scored == closed /\ issue.points > 0
    IN  [c EXCEPT !.assignedIssues = Append(@, item),
                  !.assignedCount = @ + 1,
                  !.closedIssuesWithPoints = IF scored THEN Append(@, item) ELSE @,
                  !.totalPoints = IF scored THEN @ + issue.points ELSE @,
                  !.closedCount = IF scored THEN @ + 1 ELSE @]

\* the updates buildContributorLeaderboard makes to the assignee's entry
Credit(c, issue, project, thresholdDate) ==
    LET item == Spread(issue, [projectName |-> project.name,
                               owner |-> project.owner, repo |-> project.repo])
        closed == /\ issue.state = "closed" /\ Truthy(issue.closed_at)
                  /\ DateGE(NewDate(issue.closed_at), NewDate(thresholdDate))
        scored == closed /\ issue.points > 0
    IN  [c EXCEPT !.assignedIssues = Append(@, item),
                  !.assignedCount = @ + 1,
                  !.closedIssuesWithPoints = IF scored THEN Append(@, item) ELSE @,
                  !.totalPoints = IF scored THEN @ + issue.points ELSE @,
                  !.closedCount = IF closed THEN @ + 1 ELSE @]

\* every issue with its project, in project order then issue order
IssuePairs(projs) ==
    Flatten([p \in 1..Len(projs) |->
                [k \in 1..Len(projs[p].issues) |->
                    [issue |-> projs[p].issues[k], project |-> projs[p]]]])

RECURSIVE Attribute(_, _, _)
\* the two nested forEach loops of buildContributorLeaderboard
Attribute(entries, pairs, thresholdDate) ==
    IF pairs = <<>> THEN entries
    ELSE LET issue == Head(pairs).issue
             project == Head(pairs).project
         IN  IF ~HasAssignee(issue) THEN Attribute(entries, Tail(pairs), thresholdDate)
             ELSE LET username == issue.assignee[1]
                      found == ContributorIndex(entries, username)
                      withEntry == IF found = 0
                                   THEN Append(entries, NewContributor(username))
                                   ELSE entries
                      idx == IF found = 0 THEN Len(withEntry) ELSE found
                  IN  Attribute([withEntry EXCEPT
                                    ![idx] = Credit(@, issue, project, thresholdDate)],
                                Tail(pairs), thresholdDate)

RECURSIVE InsertSorted(_, _)
\* e goes behind every element whose key is not larger than its own
InsertSorted(sorted, e) ==
    IF sorted = <<>> THEN <<e>>
    ELSE IF Head(sorted).key <= e.key
         THEN <<Head(sorted)>> \o InsertSorted(Tail(sorted), e)
         ELSE <<e>> \o sorted

RECURSIVE SortPairs(_)
SortPairs(s) ==
    IF s = <<>> THEN <<>>
    ELSE InsertSorted(SortPairs(SubSeq(s, 1, Len(s) - 1)), s[Len(s)])

\* Array.prototype.sort with a comparator (a, b) => Key(a) - Key(b): ascending
\* in Key, stable
StableSort(s, Key(_)) ==
    LET sorted == SortPairs([k \in 1..Len(s) |-> [key |-> Key(s[k]), item |-> s[k]]])
    IN  [k \in 1..Len(s) |-> sorted[k].item]

\* faulty variant: the comparators are written a - b, which sorts ascending
ContribCompareKey_ascending(c, sortBy) ==
    CASE sortBy = "points" -> c.totalPoints
      [] sortBy = "closed" -> c.closedCount
      [] sortBy = "assigned" -> c.assignedCount
      [] OTHER -> 0

\* the comparators of buildContributorLeaderboard, (a, b) => b.x - a.x, as
\* the key they sort ascending
ContribCompareKey(c, sortBy) ==
    CASE sortBy = "points" -> 0 - c.totalPoints
      [] sortBy = "closed" -> 0 - c.closedCount
      [] sortBy = "assigned" -> 0 - c.assignedCount
      [] OTHER -> 0

buildContributorLeaderboard(projs, thresholdDate, sortBy) ==
    LET leaderboard == Attribute(<<>>, IssuePairs(projs), thresholdDate)
    IN  IF sortBy \in {"points", "closed", "assigned"}
        THEN StableSort(leaderboard, LAMBDA c : ContribCompareKey(c, sortBy))
        ELSE leaderboard

\* ------------------------------------------------------------ daily counts

\* the local time zone: offset `before` up to instant `at`, `after` from then
\* on (one daylight-saving transition; none when both offsets are equal)
Zone(before, at, after) == [before |-> before, at |-> at, after |-> after]

UTC == Zone(0, 0, 0)

\* curr.setDate(curr.getDate() + 1): the same local wall-clock time on the
\* next local calendar day, as a UTC instant.  A wall-clock time that exists
\* twice or not at all is read with the offset before the transition.
NextLocalDay(t) ==
    LET offset == IF t < tz.at THEN tz.before ELSE tz.after
        wall == t + offset + TicksPerDay
        early == wall - tz.before
        late == wall - tz.after
    IN  IF early < tz.at THEN early
        ELSE IF late >= tz.at THEN late ELSE early

RECURSIVE DayKeys(_, _)
\* the keys set by the initialisation loop of calculateDailyCounts
DayKeys(curr, end) ==
    IF ~DateLE(curr, end) THEN {}
    ELSE {IsoDay(curr)} \cup DayKeys([curr EXCEPT !.t = NextLocalDay(curr.t)], end)

AllPulls(projs) == Flatten([p \in 1..Len(projs) |-> projs[p].prs])

\* calculateDailyCounts; new Date(pr.created_at).toISOString() raises a
\* RangeError for a pull request without created_at
calculateDailyCounts(projs, startDateStr, endDateStr) ==
    LET keys == DayKeys(NewDate(startDateStr), NewDate(endDateStr))
        issues == AllIssues(projs)
        prs == AllPulls(projs)
        Count(items, Dated(_, _)) ==
            [d \in keys |-> Len(SelectSeq(items, LAMBDA i : Dated(i, d)))]
        Created(i, d) == Truthy(i.created_at) /\ IsoDay(NewDate(i.created_at)) = d
        Closed(i, d) == /\ i.state = "closed" /\ Truthy(i.closed_at)
                        /\ IsoDay(NewDate(i.closed_at)) = d
        OpenedPr(pr, d) == /\ ~(pr.state = "closed" /\ Truthy(pr.closed_at))
                           /\ pr.state = "open"
                           /\ IsoDay(NewDate(pr.created_at)) = d
    IN  IF \E k \in 1..Len(prs) : ~NewDate(prs[k].created_at).valid
        THEN [threw |-> TRUE, assigned |-> <<>>, closed |-> <<>>,
              merged_prs |-> <<>>, open_prs |-> <<>>]
        ELSE [threw |-> FALSE,
              assigned |-> Count(issues, Created),
              closed |-> Count(issues, Closed),
              merged_prs |-> Count(prs, Closed),
              open_prs |-> Count(prs, OpenedPr)]

\* ------------------------------------------------------ filter/sort engine

defaultFilters ==
    [status |-> "open", assignment |-> "all", comments |-> "all", points |-> "all",
     sortBy |-> "order", sortOrder |-> "asc", contribSort |-> "points"]

\* faulty variant: the no-comments pill tests for comments instead of none
PassesFilters_swappedComments(issue, flt) ==
    /\ ~(flt.status = "open" /\ issue.state # "open")
    /\ ~(flt.status = "closed" /\ issue.state # "closed")
    /\ ~(flt.assignment = "assigned" /\ ~HasAssignee(issue))
    /\ ~(flt.assignment = "unassigned" /\ HasAssignee(issue))
    /\ ~(flt.comments = "has-comments" /\ issue.comments = 0)
    /\ ~(flt.comments = "no-comments" /\ issue.comments = 0)
    /\ ~(flt.points = "has-points" /\ issue.points = 0)

\* the callback of filterIssues: FALSE where the code returns false
PassesFilters(issue, flt) ==
    IF flt.status # "all" /\ flt.status = "open" /\ issue.state # "open" THEN FALSE
    ELSE IF flt.status # "all" /\ flt.status = "closed" /\ issue.state # "closed" THEN FALSE
    ELSE IF flt.assignment # "all" /\ flt.assignment = "assigned" /\ ~HasAssignee(issue)
         THEN FALSE
    ELSE IF flt.assignment # "all" /\ flt.assignment = "unassigned" /\ HasAssignee(issue)
         THEN FALSE
    ELSE IF flt.comments # "all" /\ flt.comments = "has-comments" /\ issue.comments = 0
         THEN FALSE
    ELSE IF flt.comments # "all" /\ flt.comments = "no-comments" /\ issue.comments > 0
         THEN FALSE
    ELSE IF flt.points = "has-points" /\ issue.points = 0 THEN FALSE
    ELSE TRUE

filterIssues(issues, flt) == SelectSeq(issues, LAMBDA issue : PassesFilters(issue, flt))

\* faulty variant: the statistics are taken over all issues of the project
applyFilters_unfilteredStats(projs, flt) ==
    [p \in 1..Len(projs) |->
        Spread(projs[p], [filteredIssues |-> filterIssues(projs[p].issues, flt),
                          filteredStats |-> IssueStats(projs[p].issues)])]

\* faulty variant: the filtered issues are appended to those of an earlier pass
applyFilters_appending(projs, flt) ==
    [p \in 1..Len(projs) |->
        LET earlier == IF "filteredIssues" \in DOMAIN projs[p]
                       THEN projs[p].filteredIssues ELSE <<>>
            filteredIssues == earlier \o filterIssues(projs[p].issues, flt)
        IN  Spread(projs[p], [filteredIssues |-> filteredIssues,
                              filteredStats |-> IssueStats(filteredIssues)])]

applyFilters(projs, flt) ==
    [p \in 1..Len(projs) |->
        LET filteredIssues == filterIssues(projs[p].issues, flt)
        IN  Spread(projs[p], [filteredIssues |-> filteredIssues,
                              filteredStats |-> IssueStats(filteredIssues)])]

\* a.order ?? 999
UnsetOrder == 999

\* a.filteredStats?.x ?? a.stats.x
ShownStats(project) ==
    IF "filteredStats" \in DOMAIN project THEN project.filteredStats ELSE project.stats

\* faulty variant: a.order || 999, which also replaces rank 0
ProjectCompareKey_orderOr(a, sortBy, sortOrder) ==
    LET aVal == CASE sortBy = "points" -> ShownStats(a).points
                  [] sortBy = "issues" -> ShownStats(a).total
                  [] sortBy = "closed" -> ShownStats(a).closed
                  [] sortBy = "name" -> a.name
                  [] OTHER -> IF a.order.tag = "number" /\ a.order.v # 0
                              THEN a.order.v ELSE UnsetOrder
    IN  IF sortOrder = "asc" THEN aVal ELSE 0 - aVal

\* the comparator of sortProjects, (a, b) => aVal - bVal or bVal - aVal, as the
\* key it sorts ascending; name is compared by collation rank
ProjectCompareKey(a, sortBy, sortOrder) ==
    LET aVal == CASE sortBy = "points" -> ShownStats(a).points
                  [] sortBy = "issues" -> ShownStats(a).total
                  [] sortBy = "closed" -> ShownStats(a).closed
                  [] sortBy = "name" -> a.name
                  [] OTHER -> IF a.order.tag = "number" THEN a.order.v ELSE UnsetOrder
    IN  IF sortOrder = "asc" THEN aVal ELSE 0 - aVal

\* faulty variant: descending order obtained by reversing the ascending sort
sortProjects_reversedForDesc(projs, sortBy, sortOrder) ==
    LET ascending == StableSort(projs, LAMBDA a : ProjectCompareKey(a, sortBy, "asc"))
    IN  IF sortOrder = "asc" THEN ascending
        ELSE [k \in 1..Len(ascending) |-> ascending[Len(ascending) + 1 - k]]

sortProjects(projs, sortBy, sortOrder) ==
    StableSort(projs, LAMBDA a : ProjectCompareKey(a, sortBy, sortOrder))

\* faulty variant: the unfiltered total decides
getVisibleProjects_unfilteredTotal(projs) == SelectSeq(projs, LAMBDA p : p.stats.total > 0)

getVisibleProjects(projs) == SelectSeq(projs, LAMBDA p : ShownStats(p).total > 0)

\* --------------------------------------------------------------- rendering

\* faulty variant: the aggregates are computed from the filtered issue lists
AggregateSource_filtered(st) ==
    [p \in 1..Len(st.projects) |->
        [st.projects[p] EXCEPT !.issues = filterIssues(st.projects[p].issues, st.filters)]]

\* the project collection render() hands to calculateGlobalStats,
\* calculateDailyCounts and buildContributorLeaderboard
AggregateSource(st) == st.projects

\* faulty variant: applyFilters writes filteredIssues and filteredStats into
\* the project records it is given
RenderLeaves_filteredInPlace(st) ==
    IF st.config.tag = "null" \/ st.activeTab # "repos" THEN st.projects
    ELSE applyFilters(st.projects, st.filters)

\* state.projects after a render pass: every step of the pass builds new
\* arrays and new project records (map, [...projects], filter, flatMap)
RenderLeaves(st) == st.projects

\* the keys owner/repo/number under which renderLeaderboard caches the issues
\* it lists: project.filteredIssues of every project drawn
LeaderboardKeys(listed) ==
    UNION { {<<listed[p].repo, listed[p].filteredIssues[k].number>> :
                k \in 1..Len(listed[p].filteredIssues)} : p \in 1..Len(listed) }

\* issueCache after renderLeaderboard(listed): returned from before the
\* cache is touched when there is nothing to list, cleared and filled from
\* the projects listed otherwise.  The cache is followed on the pages that
\* carry the field; the other specifications leave it out of the page.
renderLeaderboardCache(page, listed) ==
    IF "issueCache" \notin DOMAIN page \/ listed = <<>> THEN page
    ELSE [page EXCEPT !.issueCache = LeaderboardKeys(listed)]

\* render(): the page after a render pass over state st, old being the page
\* before it.  A TypeError on state.config === null or a RangeError in
\* calculateDailyCounts ends the pass where it is raised.  Of the two tab
\* containers only the one setupTabs leaves visible is kept.  renderLeaderboard
\* clears issueCache and fills it from the projects it draws, unless there is
\* none; the day modal is not drawn again.
render(st, old) ==
    IF st.config.tag = "null" THEN old
    ELSE LET thresholdDate == st.config.settings.thresholdDate
             stats == calculateGlobalStats(AggregateSource(st), thresholdDate)
             heatmapData == calculateDailyCounts(AggregateSource(st),
                                                 st.heatRange[1], st.heatRange[2])
             withStats == [old EXCEPT !.rendered = TRUE, !.stats = stats]
         IN  IF heatmapData.threw THEN withStats
             ELSE IF st.activeTab = "repos"
             THEN LET filteredProjects == applyFilters(st.projects, st.filters)
                      sortedProjects == sortProjects(filteredProjects, st.filters.sortBy,
                                                     st.filters.sortOrder)
                      visibleProjects == getVisibleProjects(sortedProjects)
                  IN  renderLeaderboardCache(
                          [withStats EXCEPT !.heatmap = heatmapData,
                                            !.leaderboard = visibleProjects,
                                            !.expanded = st.expandedProjects,
                                            !.contributors = <<>>],
                          visibleProjects)
             ELSE [withStats EXCEPT
                      !.heatmap = heatmapData,
                      !.leaderboard = <<>>,
                      !.expanded = {},
                      !.contributors = buildContributorLeaderboard(
                                           AggregateSource(st), thresholdDate,
                                           st.filters.contribSort)]

\* ------------------------------------------------- inputs of the parser

\* label names met in the tracked repositories, as character sequences
LabelNames ==
    { <<"1", "0", "0", " ", "p", "o", "i", "n", "t", "s">>,
      <<"p", "t", "s", "-", "5", "0">>,
      <<"b", "u", "g">>,
      <<"p", "o", "i", "n", "t", "s", ":", "7">>,
      <<"5", " ", "p", "t", "s">>,
      <<"5", "0", "p", "t", "s">>,
      <<"0", "0", "7">>,
      <<"3", " ", "P", "o", "i", "n", "s">>,
      <<"2", "f", "a">>,
      <<"v", "2">>,
      <<"p", "t", "s">>,
      <<"P", "T", "S", " ", "-", " ", "9">>,
      <<"p", "o", "i", "n", "t", "4">>,
      <<"8", " ", "p", "t", "s", "!">> }

LabelInputs ==
    {NoLabels} \cup
    {LabelArray(items) : items \in SeqsUpTo({[name |-> n] : n \in LabelNames}, MaxLabels)}

\* ------------------------------------------------------------ idle values

NoCall == [op |-> "none", args |-> <<>>, result |-> 0]
\* the page before the first render pass
\* the day modal while its backdrop is not active
NoDay == [open |-> FALSE, date |-> 0, type |-> "", items |-> <<>>]
NoView ==
    [rendered |-> FALSE, stats |-> <<>>, heatmap |-> <<>>, leaderboard |-> <<>>,
     contributors |-> <<>>, expanded |-> {}, dayModal |-> NoDay]
\* the same page with the issue cache of the ui module, empty
NoViewCached == [issueCache |-> {}] @@ NoView
NoConfig == [tag |-> "null"]
\* the issue modal before openModal has run: currentIssue null, nothing shown
NoModal ==
    [active |-> FALSE, currentIssue |-> <<>>, title |-> <<>>,
     body |-> [issue |-> <<>>, comments |-> <<>>, isLoading |-> FALSE],
     pending |-> <<>>]

\* the application has not started: nothing loaded, nothing rendered
AppIdle ==
    /\ config = NoConfig
    /\ projects = <<>>
    /\ contributors = <<>>
    /\ filters = <<>>
    /\ expandedProjects = {}
    /\ activeTab = "repos"
    /\ isLoading = FALSE
    /\ boot = "idle"
    /\ inflight = <<>>
    /\ view = NoView
    /\ modal = NoModal

appVars == <<config, projects, contributors, filters, expandedProjects,
             activeTab, isLoading, boot, inflight, view>>

envVars == <<labels, cfgFile, remote, tz, heatRange>>

\* ------------------------------------------------- inputs: issues, projects

Name50pts == <<"5", "0", "p", "t", "s">>
Name5pts == <<"5", " ", "p", "t", "s">>
NamePoints7 == <<"p", "o", "i", "n", "t", "s", ":", "7">>
NameBug == <<"b", "u", "g">>

LabelsOf(names) == LabelArray([k \in 1..Len(names) |-> [name |-> names[k]]])

\* the two threshold dates tried: the epoch itself, and two days after it
EpochThreshold == DateStr(0)
LateThreshold == DateStr(2 * TicksPerDay)
Thresholds == {EpochThreshold, LateThreshold}

\* a raw record of the Issues API
RawIssue(number, state, created, closed, assignee, labelNames, comments, isPull) ==
    [number |-> number, state |-> state, created_at |-> created,
     closed_at |-> closed, assignee |-> assignee, labels |-> labelNames,
     comments |-> comments, pull_request |-> isPull]

\* issue records as the Issues API may answer them; times are placed around
\* LateThreshold, one lies before the epoch
IssueCatalogue ==
    LET T == LateThreshold.v
    IN  << RawIssue(1, "open", DateStr(T + 1), Null, <<>>, LabelsOf(<<Name50pts>>), 0, FALSE),
           RawIssue(2, "closed", DateStr(T - 3), DateStr(T - 1), <<>>, LabelsOf(<<>>), 1, FALSE),
           RawIssue(3, "closed", DateStr(T - 1), DateStr(T), <<"amal">>, LabelsOf(<<NameBug, Name5pts>>), 2, FALSE),
           RawIssue(4, "closed", DateStr(T), DateStr(T + 1), <<"badr">>, LabelsOf(<<NamePoints7, Name5pts>>), 0, FALSE),
           RawIssue(5, "closed", DateStr(T + 1), DateStr(T + 1), <<"amal">>, NoLabels, 0, FALSE),
           RawIssue(6, "open", DateStr(0 - 1), Null, <<"badr">>, LabelsOf(<<Name5pts>>), 3, FALSE),
           RawIssue(7, "closed", DateStr(T), Null, <<"chadi">>, LabelsOf(<<NamePoints7>>), 0, FALSE),
           RawIssue(8, "closed", DateStr(0 - 2), DateStr(0 - 1), <<"chadi">>, LabelsOf(<<Name50pts>>), 1, FALSE),
           RawIssue(9, "open", DateStr(T), Null, <<"amal">>, LabelsOf(<<Name5pts>>), 0, TRUE),
           RawIssue(10, "closed", DateStr(T), Undefined, <<"chadi">>, LabelsOf(<<>>), 0, FALSE),
           RawIssue(11, "open", DateStr(T - 1), Null, <<"chadi">>, LabelsOf(<<NameBug>>), 0, FALSE) >>

\* a raw record of the Pulls API
RawPull(number, state, created, closed, merged) ==
    [number |-> number, state |-> state, created_at |-> created,
     closed_at |-> closed, merged_at |-> merged]

\* the entries of "projects" in projects.json; name holds the collation rank
\* of the display name, order is a number or undefined
CfgProjects ==
    << [id |-> "alpha", owner |-> "org", repo |-> "alpha", name |-> 2,
        order |-> [tag |-> "number", v |-> 1]],
       [id |-> "beta", owner |-> "org", repo |-> "beta", name |-> 1,
        order |-> [tag |-> "undefined", v |-> 0]] >>

\* projects.json; defaultSort and defaultSortOrder are "" when not set
CfgFileSorted(thresholdDate, defaultSort, defaultSortOrder) ==
    [tag |-> "object",
     projects |-> CfgProjects,
     settings |-> [thresholdDate |-> thresholdDate, defaultSort |-> defaultSort,
                   defaultSortOrder |-> defaultSortOrder]]

CfgFile(thresholdDate) == CfgFileSorted(thresholdDate, "", "")

OkResponse(body) == [status |-> "ok", body |-> body]

\* the catalogue issues numbered in pick, in catalogue order
Picked(pick) ==
    LET q == SelectSeq([k \in 1..Len(IssueCatalogue) |-> k], LAMBDA k : k \in pick)
    IN  [k \in 1..Len(q) |-> IssueCatalogue[q[k]]]

\* the sets of at most MaxIssues catalogue issues
IssuePicks == {pick \in SUBSET (1..Len(IssueCatalogue)) : Cardinality(pick) <= MaxIssues}

\* ------------------------------------------- specification: points parser

InitLabels ==
    /\ labels \in LabelInputs
    /\ cfgFile = NoConfig
    /\ remote = <<>>
    /\ tz = UTC
    /\ heatRange = <<>>
    /\ AppIdle
    /\ call = NoCall

ParsePoints ==
    /\ call.op = "none"
    /\ call' = [op |-> "parsePointsFromLabels", args |-> <<labels>>,
                result |-> parsePointsFromLabels(labels)]
    /\ UNCHANGED <<envVars, modal, appVars>>

\* parsePointsFromLabels called once more with the same label array
ParsePointsAgain ==
    /\ call.op = "parsePointsFromLabels"
    /\ call' = [op |-> "parsePointsFromLabelsAgain", args |-> call.args,
                result |-> parsePointsFromLabels(call.args[1]), first |-> call.result]
    /\ UNCHANGED <<envVars, modal, appVars>>

\* processIssues applied to an open and a closed issue carrying the label array
NormalizeLabelled ==
    /\ call.op = "none"
    /\ LET issues == << RawIssue(1, "open", LateThreshold, Null, <<>>, labels, 0, FALSE),
                        RawIssue(2, "closed", EpochThreshold, LateThreshold, <<"amal">>,
                                 labels, 1, FALSE) >>
       IN  call' = [op |-> "processIssues", args |-> <<issues, LateThreshold>>,
                    result |-> processIssues(issues, NewDate(LateThreshold))]
    /\ UNCHANGED <<envVars, modal, appVars>>

NextLabels ==
    \/ ParsePoints
    \/ ParsePointsAgain
    \/ NormalizeLabelled

SpecLabels == InitLabels /\ [][NextLabels]_vars

\* ------------------------------------------ specification: issue pipeline

\* configuration loaded, nothing fetched yet; the picked issues are spread
\* over the two repositories
InitIssues ==
    /\ labels = NoLabels
    /\ \E thresholdDate \in Thresholds : cfgFile = CfgFile(thresholdDate)
    /\ \E pick \in IssuePicks : \E first \in SUBSET pick :
          remote = << [issues |-> OkResponse(Picked(first)),
                       pulls |-> OkResponse(<<RawPull(21, "open", LateThreshold, Null, Null),
                                              RawPull(22, "closed", EpochThreshold,
                                                      DateStr(1), Null)>>)],
                      [issues |-> OkResponse(Picked(pick \ first)),
                       pulls |-> OkResponse(<<>>)] >>
    /\ tz = UTC
    /\ heatRange = <<>>
    /\ config = cfgFile
    /\ projects = <<>>
    /\ contributors = <<>>
    /\ filters = <<>>
    /\ expandedProjects = {}
    /\ activeTab = "repos"
    /\ isLoading = FALSE
    /\ boot = "ready"
    /\ inflight = <<>>
    /\ view = NoView
    /\ modal = NoModal
    /\ call = NoCall

\* processIssues applied to the issues answered for one project
ProcessIssues(p) ==
    /\ call' = [op |-> "processIssues",
                args |-> <<remote[p].issues.body, config.settings.thresholdDate>>,
                result |-> processIssues(remote[p].issues.body,
                                         NewDate(config.settings.thresholdDate))]
    /\ UNCHANGED <<envVars, modal, appVars>>

\* fetchAllProjectsData resolves and its result becomes state.projects
FetchAll ==
    /\ projects = <<>>
    /\ projects' = fetchAllProjectsData(config.projects, config.settings, remote)
    /\ call' = [op |-> "fetchAllProjectsData", args |-> <<>>, result |-> projects']
    /\ UNCHANGED <<envVars, modal, config, contributors, filters, expandedProjects,
                   activeTab, isLoading, boot, inflight, view>>

GlobalStats ==
    /\ projects # <<>>
    /\ call' = [op |-> "calculateGlobalStats", args |-> <<>>,
                result |-> calculateGlobalStats(projects, config.settings.thresholdDate)]
    /\ UNCHANGED <<envVars, modal, appVars>>

ContribSorts == {"points", "closed", "assigned"}

Leaderboard(sortBy) ==
    /\ projects # <<>>
    /\ call' = [op |-> "buildContributorLeaderboard", args |-> <<sortBy>>,
                result |-> buildContributorLeaderboard(
                               projects, config.settings.thresholdDate, sortBy)]
    /\ UNCHANGED <<envVars, modal, appVars>>

NextIssues ==
    \/ \E p \in 1..Len(remote) : ProcessIssues(p)
    \/ FetchAll
    \/ GlobalStats
    \/ \E sortBy \in ContribSorts : Leaderboard(sortBy)

SpecIssues == InitIssues /\ [][NextIssues]_vars

\* ----------------------------------------------- specification: heatmap

\* pull request records as the Pulls API may answer them
PullCatalogue ==
    << RawPull(21, "open", DateStr(TicksPerDay + 1), Null, Null),
       RawPull(22, "closed", DateStr(TicksPerDay), DateStr(2 * TicksPerDay), DateStr(2 * TicksPerDay)),
       RawPull(23, "closed", DateStr(0), DateStr(TicksPerDay + 1), Null),
       RawPull(24, "closed", DateStr(TicksPerDay), Null, Null),
       RawPull(25, "open", Undefined, Null, Null),
       RawPull(26, "open", DateStr(0 - 1), Null, Null) >>

PickedPulls(pick) ==
    LET q == SelectSeq([k \in 1..Len(PullCatalogue) |-> k], LAMBDA k : k \in pick)
    IN  [k \in 1..Len(q) |-> PullCatalogue[q[k]]]

\* the catalogue issues whose dates differ
DailyIssues == {1, 2, 3, 6, 7, 8}

\* no transition, a fixed offset east of UTC, a spring-forward and a fall-back
\* transition in the second day after the epoch
TimeZones ==
    { UTC,
      Zone(1, 0, 1),
      Zone(0, TicksPerDay + 1, 1),
      Zone(1, TicksPerDay + 1, 0) }

\* a date-only string is read as UTC midnight of that day
DayStr(day) == DateStr(day * TicksPerDay)

InitDaily ==
    /\ labels = NoLabels
    /\ cfgFile = CfgFile(EpochThreshold)
    /\ \E pick \in SUBSET DailyIssues : \E pulls \in SUBSET (1..Len(PullCatalogue)) :
          /\ Cardinality(pick) <= MaxDailyItems
          /\ Cardinality(pulls) <= MaxDailyItems
          /\ remote = << [issues |-> OkResponse(Picked(pick \cap {1, 3, 7})),
                          pulls |-> OkResponse(PickedPulls(pulls))],
                         [issues |-> OkResponse(Picked(pick \ {1, 3, 7})),
                          pulls |-> OkResponse(<<>>)] >>
    /\ tz \in TimeZones
    /\ \E d0 \in 0..1, d1 \in 0..MaxDay : heatRange = <<DayStr(d0), DayStr(d1)>>
    /\ config = cfgFile
    /\ projects = <<>>
    /\ contributors = <<>>
    /\ filters = <<>>
    /\ expandedProjects = {}
    /\ activeTab = "repos"
    /\ isLoading = FALSE
    /\ boot = "ready"
    /\ inflight = <<>>
    /\ view = NoView
    /\ modal = NoModal
    /\ call = NoCall

\* the items handleDayClick collects for a heatmap cell, each issue or pull
\* request with the repository it belongs to
DayItems(projs, date, type) ==
    LET Dated(x, field) == IsoDay(NewDate(x[field])) = date
        Hit(x) ==
            CASE type = "assigned" -> Truthy(x.created_at) /\ Dated(x, "created_at")
              [] type = "closed" ->
                    x.state = "closed" /\ Truthy(x.closed_at) /\ Dated(x, "closed_at")
              [] type = "merged_prs" ->
                    x.state = "closed" /\ Truthy(x.closed_at) /\ Dated(x, "closed_at")
              [] type = "open_prs" -> x.state = "open" /\ Dated(x, "created_at")
              [] OTHER -> FALSE
        Searched(project) ==
            IF type \in {"assigned", "closed"} THEN project.issues
            ELSE IF type \in {"merged_prs", "open_prs"} THEN project.prs
            ELSE <<>>
        Of(project) ==
            LET found == SelectSeq(Searched(project), Hit)
            IN  [k \in 1..Len(found) |-> [number |-> found[k].number, repo |-> project.repo]]
    IN  Flatten([p \in 1..Len(projs) |-> Of(projs[p])])

\* handleDayClick ends in a RangeError before anything is shown: toISOString
\* of the Invalid Date made from the missing created_at of an open pull request
DayClickThrows(projs, type) ==
    /\ type = "open_prs"
    /\ \E k \in 1..Len(AllPulls(projs)) :
          /\ AllPulls(projs)[k].state = "open"
          /\ ~NewDate(AllPulls(projs)[k].created_at).valid

HeatmapTypes == {"assigned", "closed", "merged_prs", "open_prs"}

\* handleDayClick(date, type) on the loaded projects, for a day of the
\* heatmap window: the items it hands to showDayActivity
CollectDay(date, type) ==
    /\ projects # <<>>
    /\ IsoDay(NewDate(heatRange[1])) <= date
    /\ date <= IsoDay(NewDate(heatRange[2]))
    /\ call' = [op |-> "handleDayClick", args |-> <<date, type>>,
                result |-> [threw |-> DayClickThrows(projects, type),
                            items |-> IF DayClickThrows(projects, type) THEN <<>>
                                      ELSE DayItems(projects, date, type)]]
    /\ UNCHANGED <<envVars, modal, appVars>>

DailyCounts ==
    /\ projects # <<>>
    /\ call' = [op |-> "calculateDailyCounts", args |-> heatRange,
                result |-> calculateDailyCounts(projects, heatRange[1], heatRange[2])]
    /\ UNCHANGED <<envVars, modal, appVars>>

NextDaily ==
    \/ FetchAll
    \/ DailyCounts
    \/ \E date \in 0..MaxDay : \E type \in HeatmapTypes : CollectDay(date, type)

SpecDaily == InitDaily /\ [][NextDaily]_vars

\* ------------------------------------------------ specification: filters

\* the values of the filter pills and of the points toggle
StatusValues == {"all", "open", "closed"}
AssignmentValues == {"all", "assigned", "unassigned"}
CommentsValues == {"all", "has-comments", "no-comments"}
PointsValues == {"all", "has-points"}
SortByValues == {"order", "points", "issues", "closed", "name"}
SortOrderValues == {"asc", "desc"}

IssueFilters ==
    {[defaultFilters EXCEPT !.status = s, !.assignment = a, !.comments = c, !.points = pt] :
        s \in StatusValues, a \in AssignmentValues, c \in CommentsValues, pt \in PointsValues}

\* the catalogue issues that differ in state, assignee, comments or points
FilterIssuesPickable == {1, 2, 3, 5, 6, 11}

InitFilters ==
    /\ labels = NoLabels
    /\ cfgFile = CfgFile(EpochThreshold)
    /\ \E pick \in SUBSET FilterIssuesPickable : \E first \in SUBSET pick :
          /\ Cardinality(pick) <= MaxIssues
          /\ remote = << [issues |-> OkResponse(Picked(first)), pulls |-> OkResponse(<<>>)],
                         [issues |-> OkResponse(Picked(pick \ first)),
                          pulls |-> OkResponse(<<>>)] >>
    /\ tz = UTC
    /\ heatRange = <<>>
    /\ config = cfgFile
    /\ projects = <<>>
    /\ contributors = <<>>
    /\ filters = defaultFilters
    /\ expandedProjects = {}
    /\ activeTab = "repos"
    /\ isLoading = FALSE
    /\ boot = "ready"
    /\ inflight = <<>>
    /\ view = NoView
    /\ modal = NoModal
    /\ call = NoCall

\* filterIssues applied to the issues of one project
FilterIssues(p, flt) ==
    /\ call.op = "fetchAllProjectsData"
    /\ call' = [op |-> "filterIssues", args |-> <<projects[p].issues, flt>>,
                result |-> filterIssues(projects[p].issues, flt)]
    /\ UNCHANGED <<envVars, modal, appVars>>

NextFilters ==
    \/ FetchAll
    \/ \E p \in 1..Len(projects), flt \in IssueFilters : FilterIssues(p, flt)

SpecFilters == InitFilters /\ [][NextFilters]_vars

\* ------------------------------------------ specification: project lists

MaxProjectIssues == 5

\* three configured projects: gamma has rank 0 and shares its display name
\* with beta
CfgProjects3 ==
    CfgProjects \o
    << [id |-> "gamma", owner |-> "org", repo |-> "gamma", name |-> 1,
        order |-> [tag |-> "number", v |-> 0]] >>

\* the issues answered for beta and gamma
RestPicks == { <<{}, {}>>, <<{1}, {6}>>, <<{3}, {1, 2}>> }

InitProjects ==
    /\ labels = NoLabels
    /\ cfgFile = [CfgFile(EpochThreshold) EXCEPT !.projects = CfgProjects3]
    /\ \E pick \in SUBSET FilterIssuesPickable : \E rest \in RestPicks :
          /\ Cardinality(pick) <= MaxProjectIssues
          /\ remote = << [issues |-> OkResponse(Picked(pick)), pulls |-> OkResponse(<<>>)],
                         [issues |-> OkResponse(Picked(rest[1])), pulls |-> OkResponse(<<>>)],
                         [issues |-> OkResponse(Picked(rest[2])), pulls |-> OkResponse(<<>>)] >>
    /\ tz = UTC
    /\ heatRange = <<>>
    /\ config = cfgFile
    /\ projects = <<>>
    /\ contributors = <<>>
    /\ filters = defaultFilters
    /\ expandedProjects = {}
    /\ activeTab = "repos"
    /\ isLoading = FALSE
    /\ boot = "ready"
    /\ inflight = <<>>
    /\ view = NoView
    /\ modal = NoModal
    /\ call = NoCall

\* applyFilters applied to state.projects
ApplyFilters(flt) ==
    /\ call.op = "fetchAllProjectsData"
    /\ call' = [op |-> "applyFilters", args |-> <<projects, flt>>,
                result |-> applyFilters(projects, flt)]
    /\ UNCHANGED <<envVars, modal, appVars>>

\* applyFilters applied a second time with the same filters, to the same
\* list (again = "input") or to the list it returned (again = "result")
ApplyFiltersAgain(again) ==
    /\ call.op = "applyFilters"
    /\ LET input == IF again = "input" THEN call.args[1] ELSE call.result
       IN  call' = [op |-> "applyFiltersAgain", args |-> <<input, call.args[2]>>,
                    result |-> applyFilters(input, call.args[2]),
                    first |-> call.result]
    /\ UNCHANGED <<envVars, modal, appVars>>

\* sortProjects applied to state.projects or to the result of applyFilters
SortProjects(sortBy, sortOrder) ==
    /\ call.op \in {"fetchAllProjectsData", "applyFilters"}
    /\ LET input == IF call.op = "applyFilters" THEN call.result ELSE projects
       IN  call' = [op |-> "sortProjects", args |-> <<input, sortBy, sortOrder>>,
                    result |-> sortProjects(input, sortBy, sortOrder)]
    /\ UNCHANGED <<envVars, modal, appVars>>

\* getVisibleProjects applied to state.projects or to the result of
\* applyFilters
GetVisibleProjects ==
    /\ call.op \in {"fetchAllProjectsData", "applyFilters"}
    /\ LET input == IF call.op = "applyFilters" THEN call.result ELSE projects
       IN  call' = [op |-> "getVisibleProjects", args |-> <<input>>,
                    result |-> getVisibleProjects(input)]
    /\ UNCHANGED <<envVars, modal, appVars>>

NextProjects ==
    \/ FetchAll
    \/ \E flt \in IssueFilters : ApplyFilters(flt)
    \/ \E again \in {"input", "result"} : ApplyFiltersAgain(again)
    \/ \E sortBy \in SortByValues \cup {"stars"}, sortOrder \in SortOrderValues :
          SortProjects(sortBy, sortOrder)
    \/ GetVisibleProjects

SpecProjects == InitProjects /\ [][NextProjects]_vars

\* -------------------------------------------- specification: application

MaxInflight == 2
MaxChangedFilters == 2

\* the filters init() leaves: the defaults, with the sort settings of the
\* configuration where it has any
ConfiguredFilters(flt, settings) ==
    [flt EXCEPT !.sortBy = IF settings.defaultSort # "" THEN settings.defaultSort ELSE @,
                !.sortOrder = IF settings.defaultSortOrder # ""
                              THEN settings.defaultSortOrder ELSE @]

\* the number of filter settings of flt the user has changed
ChangedFilters(flt) ==
    Cardinality({key \in DOMAIN flt :
                    flt[key] # ConfiguredFilters(defaultFilters, config.settings)[key]})

\* state, as render() and the handlers read it
State(cfg, projs, flt, expanded, tab) ==
    [config |-> cfg, projects |-> projs, filters |-> flt,
     expandedProjects |-> expanded, activeTab |-> tab, heatRange |-> heatRange]

\* the issue sets the tracked repositories may hold when the page is opened
AppPicks == {{1, 2}, {3, 4, 6}}

\* projects.json as deployed with each of them: without sort settings, and
\* with a default sort by points, descending
AppConfig(pick) ==
    IF pick = {1, 2} THEN CfgFile(LateThreshold)
    ELSE CfgFileSorted(LateThreshold, "points", "desc")

\* what GitHub answers for the two repositories when they hold the issues of
\* pick
RemoteData(pick) ==
    << [issues |-> OkResponse(Picked(pick \cap {1, 3, 5, 7})),
        pulls |-> OkResponse(PickedPulls({1, 2}))],
       [issues |-> OkResponse(Picked(pick \ {1, 3, 5, 7})),
        pulls |-> OkResponse(<<>>)] >>

\* the page has been opened: init() has run up to its await of loadConfig()
Init ==
    /\ labels = NoLabels
    /\ \E pick \in AppPicks :
          /\ cfgFile = AppConfig(pick)
          /\ remote = RemoteData(pick)
    /\ tz = UTC
    /\ heatRange = <<DayStr(1), DayStr(MaxDay)>>
    /\ config = NoConfig
    /\ projects = <<>>
    /\ contributors = <<>>
    /\ filters = defaultFilters
    /\ expandedProjects = {}
    /\ activeTab = "repos"
    /\ isLoading = FALSE
    /\ boot = "config"
    /\ inflight = <<>>
    /\ view = NoView
    /\ modal = NoModal
    /\ call = NoCall

\* a fetchData call suspended in its await: who called it, and the answers
\* the requests it has sent will get
Pending(caller, answers) == [caller |-> caller, answers |-> answers]

\* the fetchData call started last, with the answers it will get
Started(answers) == [op |-> "fetchData", args |-> answers, result |-> 0]

\* fetchData from the arrival of the answers on, with a catch block that
\* empties the state
fetchData_emptyOnFailure(cfg, projs, contribs, flt, answers) ==
    IF fetchAllProjectsDataRejects(answers)
    THEN [projects |-> <<>>, contributors |-> <<>>, isLoading |-> FALSE]
    ELSE LET fetched == fetchAllProjectsData(cfg.projects, cfg.settings, answers)
         IN  [projects |-> fetched,
              contributors |-> buildContributorLeaderboard(
                                   fetched, cfg.settings.thresholdDate, flt.contribSort),
              isLoading |-> FALSE]

\* fetchData from the arrival of the answers on: what it leaves in
\* state.projects, state.contributors and state.isLoading when it returns.
\* A rejection of fetchAllProjectsData is caught and logged, and neither
\* assignment is made.
fetchData(cfg, projs, contribs, flt, answers) ==
    IF fetchAllProjectsDataRejects(answers)
    THEN [projects |-> projs, contributors |-> contribs, isLoading |-> FALSE]
    ELSE LET fetched == fetchAllProjectsData(cfg.projects, cfg.settings, answers)
         IN  [projects |-> fetched,
              contributors |-> buildContributorLeaderboard(
                                   fetched, cfg.settings.thresholdDate, flt.contribSort),
              isLoading |-> FALSE]

\* loadConfig() resolves: init() stores the configuration and calls
\* fetchData(), which sends its requests and runs up to its await
LoadConfigOk ==
    /\ boot = "config"
    /\ config' = cfgFile
    /\ filters' = ConfiguredFilters(filters, cfgFile.settings)
    /\ boot' = "fetching"
    /\ isLoading' = TRUE
    /\ inflight' = Append(inflight, Pending("init", remote))
    /\ call' = Started(remote)
    /\ UNCHANGED <<envVars, modal, projects, contributors, expandedProjects,
                   activeTab, view>>

\* loadConfig() rejects: init() logs the error and shows the empty state
LoadConfigFail ==
    /\ boot = "config"
    /\ boot' = "failed"
    /\ UNCHANGED <<envVars, modal, config, projects, contributors, filters, expandedProjects,
                   activeTab, isLoading, inflight, view, call>>

\* a click on refresh, or a token save, whose listener ends with the same two
\* statements (await fetchData(); render()): fetchData() runs up to its await.
\* Without a configuration the read of state.config.projects is caught inside
\* fetchData, and the render() that follows ends on its first line.
StartFetch(caller) ==
    /\ ~view.dayModal.open
    /\ Len(inflight) < MaxInflight
    /\ IF config.tag = "null"
       THEN /\ isLoading' = FALSE
            /\ UNCHANGED <<inflight, call>>
       ELSE /\ isLoading' = TRUE
            /\ inflight' = Append(inflight, Pending(caller, remote))
            /\ call' = Started(remote)
    /\ UNCHANGED <<envVars, modal, config, projects, contributors, filters, expandedProjects,
                   activeTab, boot, view>>

\* the network answers of the k-th pending fetchData arrive: it stores the
\* projects and the contributors, or logs the rejection, and returns to its
\* caller, which renders
CompleteFetch(k) ==
    /\ k \in 1..Len(inflight)
    /\ LET left == fetchData(config, projects, contributors, filters, inflight[k].answers)
       IN  /\ projects' = left.projects
           /\ contributors' = left.contributors
           /\ isLoading' = left.isLoading
    /\ inflight' = SubSeq(inflight, 1, k - 1) \o SubSeq(inflight, k + 1, Len(inflight))
    /\ boot' = IF inflight[k].caller = "init" THEN "ready" ELSE boot
    /\ view' = render(State(config, projects', filters, expandedProjects, activeTab), view)
    /\ UNCHANGED <<envVars, modal, config, filters, expandedProjects, activeTab, call>>

FilterKeys == {"status", "assignment", "comments", "points", "sortBy", "contribSort"}

FilterValues(key) ==
    CASE key = "status" -> StatusValues
      [] key = "assignment" -> AssignmentValues
      [] key = "comments" -> CommentsValues
      [] key = "points" -> PointsValues
      [] key = "sortBy" -> SortByValues
      [] key = "contribSort" -> ContribSorts

\* handleFilterChange with its two statements exchanged: the render pass runs
\* on the filters as they were, and the new value is stored after it
handleFilterChange_renderFirst(filterType, value) ==
    /\ boot = "ready"
    /\ filters[filterType] # value
    /\ filters' = [filters EXCEPT ![filterType] = value]
    /\ ChangedFilters(filters') <= MaxChangedFilters
    /\ ~view.dayModal.open
    /\ view' = render(State(config, projects, filters, expandedProjects, activeTab), view)
    /\ projects' = RenderLeaves(State(config, projects, filters, expandedProjects, activeTab))
    /\ UNCHANGED <<envVars, modal, config, contributors, expandedProjects, activeTab,
                   isLoading, boot, inflight, call>>

\* a click on a filter pill, the points toggle or the sort select, once
\* renderFiltersBar has bound them
handleFilterChange(filterType, value) ==
    /\ boot = "ready"
    /\ filters[filterType] # value
    /\ filters' = [filters EXCEPT ![filterType] = value]
    /\ ChangedFilters(filters') <= MaxChangedFilters
    /\ ~view.dayModal.open
    /\ view' = render(State(config, projects, filters', expandedProjects, activeTab), view)
    /\ projects' = RenderLeaves(State(config, projects, filters', expandedProjects, activeTab))
    /\ UNCHANGED <<envVars, modal, config, contributors, expandedProjects, activeTab,
                   isLoading, boot, inflight, call>>

\* a click on the header of a rendered project card
handleProjectToggle(projectId) ==
    /\ activeTab = "repos"
    /\ \E k \in 1..Len(view.leaderboard) : view.leaderboard[k].id = projectId
    /\ expandedProjects' = IF projectId \in expandedProjects
                           THEN expandedProjects \ {projectId}
                           ELSE expandedProjects \cup {projectId}
    /\ ~view.dayModal.open
    /\ view' = render(State(config, projects, filters, expandedProjects', activeTab), view)
    /\ projects' = RenderLeaves(State(config, projects, filters, expandedProjects', activeTab))
    /\ UNCHANGED <<envVars, modal, config, contributors, filters, activeTab,
                   isLoading, boot, inflight, call>>

\* a click on a tab
TabClick(tabName) ==
    /\ activeTab # tabName
    /\ activeTab' = tabName
    /\ ~view.dayModal.open
    /\ view' = render(State(config, projects, filters, expandedProjects, tabName), view)
    /\ projects' = RenderLeaves(State(config, projects, filters, expandedProjects, tabName))
    /\ UNCHANGED <<envVars, modal, config, contributors, filters, expandedProjects,
                   isLoading, boot, inflight, call>>

\* showDayActivity: every item is added to issueCache under its key, where
\* the cache is followed, and the day modal and its backdrop become active
showDayActivity(old, date, type, items) ==
    LET shown == [old EXCEPT !.dayModal = [open |-> TRUE, date |-> date,
                                           type |-> type, items |-> items]]
    IN  IF "issueCache" \notin DOMAIN old THEN shown
        ELSE [shown EXCEPT !.issueCache = @ \cup {<<items[k].repo, items[k].number>> :
                                                    k \in 1..Len(items)}]

\* the heatmap cells clicked
DayClicks == { <<2, "closed">>, <<1, "open_prs">> }

\* a click on a heatmap cell renderHeatmaps has drawn; toISOString raises a
\* RangeError, before anything is shown, for an open pull request without
\* created_at
handleDayClick(date, type) ==
    /\ type \in DOMAIN view.heatmap
    /\ date \in DOMAIN view.heatmap[type]
    /\ ~view.dayModal.open
    /\ view' = IF DayClickThrows(projects, type)
               THEN view
               ELSE showDayActivity(view, date, type, DayItems(projects, date, type))
    /\ UNCHANGED <<envVars, modal, config, projects, contributors, filters, expandedProjects,
                   activeTab, isLoading, boot, inflight, call>>

\* a click on the backdrop or on the close button of the day modal
closeDayModal ==
    /\ view.dayModal.open
    /\ view' = [view EXCEPT !.dayModal = NoDay]
    /\ UNCHANGED <<envVars, modal, config, projects, contributors, filters, expandedProjects,
                   activeTab, isLoading, boot, inflight, call>>

Next ==
    \/ LoadConfigOk
    \/ LoadConfigFail
    \/ \E caller \in {"listener"} : StartFetch(caller)
    \/ \E k \in 1..MaxInflight : CompleteFetch(k)
    \/ \E key \in FilterKeys : \E value \in FilterValues(key) : handleFilterChange(key, value)
    \/ \E id \in {"alpha", "beta"} : handleProjectToggle(id)
    \/ \E tabName \in {"repos", "contributors"} : TabClick(tabName)
    \/ \E click \in DayClicks : handleDayClick(click[1], click[2])
    \/ closeDayModal

Spec == Init /\ [][Next]_vars

\* ------------------------- specification: fetches against a changing server

\* what GitHub may answer at different times: the issues and pull requests of
\* the repositories, a rate limit on every request, and an ok response for
\* alpha's issues whose JSON is not a list
RemoteStates ==
    { RemoteData({1, 2}),
      RemoteData({3, 4, 6}),
      << [issues |-> FailedResponse, pulls |-> FailedResponse],
         [issues |-> FailedResponse, pulls |-> FailedResponse] >>,
      << [issues |-> NotAListResponse, pulls |-> OkResponse(PickedPulls({1, 2}))],
         [issues |-> OkResponse(Picked({2})), pulls |-> OkResponse(<<>>)] >> }

InitFetch ==
    /\ labels = NoLabels
    /\ cfgFile = AppConfig({1, 2})
    /\ remote \in RemoteStates
    /\ tz = UTC
    /\ heatRange = <<DayStr(1), DayStr(MaxDay)>>
    /\ config = NoConfig
    /\ projects = <<>>
    /\ contributors = <<>>
    /\ filters = defaultFilters
    /\ expandedProjects = {}
    /\ activeTab = "repos"
    /\ isLoading = FALSE
    /\ boot = "config"
    /\ inflight = <<>>
    /\ view = NoView
    /\ modal = NoModal
    /\ call = NoCall

\* the repositories change, the rate limit is reached or lifted, a proxy
\* starts or stops answering in GitHub's place
RemoteChanges(answers) ==
    /\ answers # remote
    /\ remote' = answers
    /\ UNCHANGED <<labels, cfgFile, tz, heatRange, appVars, modal, call>>

NextFetch ==
    \/ LoadConfigOk
    \/ LoadConfigFail
    \/ \E caller \in {"listener"} : StartFetch(caller)
    \/ \E k \in 1..MaxInflight : CompleteFetch(k)
    \/ \E answers \in RemoteStates : RemoteChanges(answers)
    \/ \E tabName \in {"repos", "contributors"} : TabClick(tabName)

SpecFetch == InitFetch /\ [][NextFetch]_vars

\* ------------------------------ specification: the page with its issue cache

\* the page has been opened, as in Init, with issueCache followed
InitCache ==
    /\ labels = NoLabels
    /\ cfgFile = AppConfig({3, 4, 6})
    /\ remote = RemoteData({3, 4, 6})
    /\ tz = UTC
    /\ heatRange = <<DayStr(1), DayStr(MaxDay)>>
    /\ config = NoConfig
    /\ projects = <<>>
    /\ contributors = <<>>
    /\ filters = defaultFilters
    /\ expandedProjects = {}
    /\ activeTab = "repos"
    /\ isLoading = FALSE
    /\ boot = "config"
    /\ inflight = <<>>
    /\ view = NoViewCached
    /\ modal = NoModal
    /\ call = NoCall

NextCache ==
    \/ LoadConfigOk
    \/ \E caller \in {"listener"} : StartFetch(caller)
    \/ \E k \in 1..MaxInflight : CompleteFetch(k)
    \/ \E value \in StatusValues : handleFilterChange("status", value)
    \/ \E tabName \in {"repos", "contributors"} : TabClick(tabName)
    \/ \E click \in DayClicks : handleDayClick(click[1], click[2])
    \/ closeDayModal

SpecCache == InitCache /\ [][NextCache]_vars

\* ------------------- specification: fetchAllProjectsData, requests failing

\* what the three repositories answer when every request succeeds
SettleData ==
    << [issues |-> OkResponse(Picked({1, 3})), pulls |-> OkResponse(PickedPulls({1, 2}))],
       [issues |-> OkResponse(Picked({4})), pulls |-> OkResponse(PickedPulls({3}))],
       [issues |-> OkResponse(Picked({6})), pulls |-> OkResponse(PickedPulls({6}))] >>

\* each request answered, refused with an error status, or rejected
Outcomes(response) == {response, FailedResponse, RejectedResponse}

InitSettle ==
    /\ labels = NoLabels
    /\ cfgFile = [CfgFile(EpochThreshold) EXCEPT !.projects = CfgProjects3]
    /\ remote \in [1..3 -> [issues : UNION {Outcomes(SettleData[p].issues) : p \in 1..3},
                            pulls : UNION {Outcomes(SettleData[p].pulls) : p \in 1..3}]]
    /\ \A p \in 1..3 : /\ remote[p].issues \in Outcomes(SettleData[p].issues)
                        /\ remote[p].pulls \in Outcomes(SettleData[p].pulls)
    /\ tz = UTC
    /\ heatRange = <<>>
    /\ config = cfgFile
    /\ projects = <<>>
    /\ contributors = <<>>
    /\ filters = defaultFilters
    /\ expandedProjects = {}
    /\ activeTab = "repos"
    /\ isLoading = FALSE
    /\ boot = "ready"
    /\ inflight = <<>>
    /\ view = NoView
    /\ modal = NoModal
    /\ call = NoCall

\* fetchAllProjectsData(state.config.projects, state.config.settings) whose
\* per-project callbacks settle in the order settled
FetchAllSettling(settled) ==
    /\ call.op = "none"
    /\ projects' = fetchAllProjectsDataSettling(config.projects, config.settings,
                                                remote, settled)
    /\ call' = [op |-> "fetchAllProjectsData", args |-> settled, result |-> projects']
    /\ UNCHANGED <<envVars, modal, config, contributors, filters, expandedProjects,
                   activeTab, isLoading, boot, inflight, view>>

NextSettle == \E settled \in Permutations(1..3) : FetchAllSettling(settled)

SpecSettle == InitSettle /\ [][NextSettle]_vars

\* ------------------------------------------ specification: the issue modal

MaxPendingComments == 2

\* an issue as the modal receives it: the repository and the number, which
\* name it and the request for its comments
IssueKeys(projs) ==
    {<<projs[p].repo, projs[p].issues[k].number>> :
        <<p, k>> \in {<<p, k>> \in (1..Len(projs)) \X (1..MaxIssues) :
                         k <= Len(projs[p].issues)}}

\* what fetchIssueComments resolves to for an issue: its comments, or the
\* empty list when the request fails
CommentsOf(issue) == { <<[on |-> issue, id |-> 1]>>, <<>> }

\* renderModalContent: the body shows the badges of issue and the comments,
\* or the spinner
renderModalContent(issue, comments, loading) ==
    [issue |-> issue, comments |-> comments, isLoading |-> loading]

\* the page is loaded and rendered; no issue has been opened
InitModal ==
    /\ labels = NoLabels
    /\ cfgFile = AppConfig({3, 4, 6})
    /\ remote = RemoteData({3, 4, 6})
    /\ tz = UTC
    /\ heatRange = <<DayStr(1), DayStr(MaxDay)>>
    /\ config = cfgFile
    /\ projects = fetchAllProjectsData(config.projects, config.settings, remote)
    /\ contributors = buildContributorLeaderboard(projects, config.settings.thresholdDate,
                                                  defaultFilters.contribSort)
    /\ filters = ConfiguredFilters(defaultFilters, cfgFile.settings)
    /\ expandedProjects = {}
    /\ activeTab = "repos"
    /\ isLoading = FALSE
    /\ boot = "ready"
    /\ inflight = <<>>
    /\ view = render(State(config, projects, filters, expandedProjects, activeTab), NoView)
    /\ modal = NoModal
    /\ call = NoCall

\* a click on an issue card while the modal's backdrop is not in the way:
\* handleIssueClick calls openModal, which runs up to its await of
\* fetchIssueComments
openModal(issue) ==
    /\ issue \in IssueKeys(projects)
    /\ ~modal.active
    /\ Len(modal.pending) < MaxPendingComments
    /\ modal' = [active |-> TRUE,
                 currentIssue |-> issue,
                 title |-> issue,
                 body |-> renderModalContent(issue, <<>>, TRUE),
                 pending |-> Append(modal.pending, issue)]
    /\ UNCHANGED <<envVars, appVars, call>>

\* fetchIssueComments resolves for the k-th pending openModal call, which
\* renders the comments of its own issue
CommentsArrive(k, comments) ==
    /\ k \in 1..Len(modal.pending)
    /\ comments \in CommentsOf(modal.pending[k])
    /\ modal' = [modal EXCEPT
                    !.body = renderModalContent(modal.pending[k], comments, FALSE),
                    !.pending = SubSeq(@, 1, k - 1) \o SubSeq(@, k + 1, Len(@))]
    /\ UNCHANGED <<envVars, appVars, call>>

\* a click on the backdrop or the close button, or the Escape key
closeModal ==
    /\ modal.active
    /\ modal' = [modal EXCEPT !.active = FALSE, !.currentIssue = <<>>]
    /\ UNCHANGED <<envVars, appVars, call>>

\* the issues of the two repositories
ModalIssues == {"alpha", "beta"} \X {3, 4, 6}

NextModal ==
    \/ \E issue \in ModalIssues : openModal(issue)
    \/ \E k \in 1..MaxPendingComments :
          \E comments \in UNION {CommentsOf(issue) : issue \in ModalIssues} :
              CommentsArrive(k, comments)
    \/ closeModal

SpecModal == InitModal /\ [][NextModal]_vars

\* ------------------------------------------------------------------ C1

\* name splits as digits, separators, then nothing or a point word
SplitsNumberFirst(name, i, j) ==
    /\ 1 <= i /\ i <= j /\ j <= Len(name)
    /\ \A k \in 1..i : name[k] \in Digits
    /\ \A k \in (i + 1)..j : name[k] \in Separators
    /\ (j = Len(name) \/ Lower(SubSeq(name, j + 1, Len(name))) \in PointWords)

\* name splits as a point word, separators, then digits up to its end
SplitsWordFirst(name, i, j) ==
    /\ 1 <= i /\ i <= j /\ j < Len(name)
    /\ Lower(SubSeq(name, 1, i)) \in PointWords
    /\ \A k \in (i + 1)..j : name[k] \in Separators
    /\ \A k \in (j + 1)..Len(name) : name[k] \in Digits

\* the numbers a label name carries under one of the two point patterns
PointNumbers(name) ==
    {ParseInt(SubSeq(name, 1, i)) :
        i \in {i \in 1..Len(name) : \E j \in 1..Len(name) : SplitsNumberFirst(name, i, j)
                                     /\ (i = Len(name) \/ name[i + 1] \notin Digits)}}
    \cup
    {ParseInt(SubSeq(name, j + 1, Len(name))) :
        j \in {j \in 1..Len(name) : \E i \in 1..Len(name) : SplitsWordFirst(name, i, j)}}

\* C1: parsePointsFromLabels returns the number of the first label, in list
\* order, whose name matches one of the two point patterns, and 0 when no
\* label matches or the list is missing or empty.
C1_FirstMatchWins ==
    call.op = "parsePointsFromLabels" =>
        LET items == labels.items
            hit == {i \in 1..Len(items) : PointNumbers(items[i].name) # {}}
        IN  IF labels.tag # "array" \/ hit = {}
            THEN call.result = 0
            ELSE \E i \in hit :
                    /\ \A k \in hit : i <= k
                    /\ PointNumbers(items[i].name) = {call.result}

\* the parser has run on a list whose second matching label carries the
\* larger number, and has answered with the first label's number
C1_Witness ==
    /\ call.op = "parsePointsFromLabels"
    /\ labels.tag = "array" /\ Len(labels.items) = 2
    /\ PointNumbers(labels.items[1].name) = {7}
    /\ PointNumbers(labels.items[2].name) = {50}
    /\ call.result = 7

\* ------------------------------------------------------------------ C2

\* the issue carries a closing timestamp on or after the threshold date
ClosedOnOrAfter(issue, thresholdDate) ==
    issue.closed_at.tag = "date" /\ issue.closed_at.v >= thresholdDate.v

\* C2: processIssues keeps every open issue and keeps a closed issue if and
\* only if it has a closing timestamp on or after the threshold date, so every
\* retained closed issue has closed_at >= T.
C2_KeepsOpenAndClosedSince ==
    call.op = "processIssues" =>
        LET issues == call.args[1]
            T == call.args[2]
            kept == SelectSeq(issues, LAMBDA i : i.state = "open" \/ ClosedOnOrAfter(i, T))
        IN  /\ [k \in 1..Len(call.result) |-> call.result[k].number]
                  = [k \in 1..Len(kept) |-> kept[k].number]
            /\ \A k \in 1..Len(call.result) :
                  call.result[k].state = "closed" => ClosedOnOrAfter(call.result[k], T)

\* ------------------------------------------------------------------ C3

ClosedBefore(issue, thresholdDate) ==
    /\ issue.state = "closed"
    /\ issue.closed_at.tag = "date"
    /\ issue.closed_at.v < thresholdDate.v

\* the raw issues answered for project p that were not closed before T
Survivors(p, T) == SelectSeq(remote[p].issues.body, LAMBDA i : ~ClosedBefore(i, T))

RawPoints(issues) ==
    SumSeq([k \in 1..Len(issues) |-> parsePointsFromLabels(issues[k].labels)])

\* the scenario of the specification: one open issue with a 50 point label,
\* one issue closed before the threshold date
Scenario50 ==
    /\ config.settings.thresholdDate = LateThreshold
    /\ remote[1].issues.body = Picked({1, 2})
    /\ remote[2].issues.body = <<>>

\* C3: after fetchAllProjectsData an issue closed before the threshold date
\* is in no project's issue list, and so adds nothing to the project stats,
\* the global stats or the contributor leaderboard; one open issue worth 50
\* points plus one issue closed before the threshold give totalPoints = 50
\* and collectedPoints = 0.
C3_ClosedBeforeThresholdDropped ==
    projects # <<>> =>
        LET T == config.settings.thresholdDate
        IN  /\ \A p \in 1..Len(projects) :
                  /\ \A k \in 1..Len(projects[p].issues) :
                        ~ClosedBefore(projects[p].issues[k], T)
                  /\ projects[p].stats.total <= Len(Survivors(p, T))
                  /\ projects[p].stats.points <= RawPoints(Survivors(p, T))
            /\ call.op = "calculateGlobalStats" =>
                  /\ call.result.totalPoints
                        <= SumSeq([p \in 1..Len(remote) |-> RawPoints(Survivors(p, T))])
                  /\ call.result.closedSince + call.result.open
                        <= SumSeq([p \in 1..Len(remote) |-> Len(Survivors(p, T))])
                  /\ Scenario50 =>
                        call.result.totalPoints = 50 /\ call.result.collectedPoints = 0
            /\ call.op = "buildContributorLeaderboard" =>
                  \A c \in 1..Len(call.result) :
                      \A k \in 1..Len(call.result[c].assignedIssues) :
                          ~ClosedBefore(call.result[c].assignedIssues[k], T)

\* the scenario has been fetched and its global stats computed
C3_Witness ==
    /\ Scenario50
    /\ Len(projects) = 2 /\ Len(projects[1].issues) = 1
    /\ call.op = "calculateGlobalStats"
    /\ call.result.totalPoints = 50

\* ------------------------------------------------------------------ C4

\* C4: calculateGlobalStats returns collectedPoints <= totalPoints.
C4_CollectedWithinTotal ==
    call.op = "calculateGlobalStats" =>
        call.result.collectedPoints <= call.result.totalPoints

\* stats of a project set in which some points are collected and some are not
C4_Witness ==
    /\ call.op = "calculateGlobalStats"
    /\ call.result.collectedPoints > 0
    /\ call.result.collectedPoints < call.result.totalPoints

\* ------------------------------------------------------------------ C5

\* the state with the six issue-filter and project-sort settings at their
\* defaults and everything else as it is
WithDefaultIssueFilters ==
    State(config, projects,
          [defaultFilters EXCEPT !.contribSort = filters.contribSort],
          expandedProjects, activeTab)

\* C5: the global stats and the contributor leaderboard on the page depend
\* only on the loaded projects and the threshold date: whatever status,
\* assignment, comments, points, sortBy and sortOrder the user has selected,
\* they are what a render pass with the default settings shows, and
\* state.contributors holds the same entries.
C5_AggregatesIgnoreIssueFilters ==
    view.rendered =>
        /\ view.stats = render(WithDefaultIssueFilters, NoView).stats
        /\ view.contributors = render(WithDefaultIssueFilters, NoView).contributors
        /\ Range(contributors)
              = Range(buildContributorLeaderboard(projects, config.settings.thresholdDate,
                                                  "points"))

\* the contributors tab after two filter changes that hide every assigned and
\* every open issue from the project list
C5_Witness ==
    /\ view.rendered
    /\ activeTab = "contributors"
    /\ filters.status = "closed" /\ filters.assignment = "unassigned"
    /\ Len(view.contributors) = 2
    /\ view.stats.open = 1 /\ view.stats.withAssignees = 3

\* ------------------------------------------------------------------ C6

\* C6: the sum of assignedCount over the leaderboard equals the number of
\* issues, over all projects, that have an assignee.
C6_AssignedCountsSumToAssignedIssues ==
    call.op = "buildContributorLeaderboard" =>
        SumSeq([c \in 1..Len(call.result) |-> call.result[c].assignedCount])
            = Len(SelectSeq(AllIssues(projects), HasAssignee))

\* a leaderboard of two contributors with one assigned issue each, one of the
\* issues closed, beside an unassigned issue
C6_Witness ==
    /\ call.op = "buildContributorLeaderboard"
    /\ Len(call.result) = 2
    /\ Len(SelectSeq(AllIssues(projects), HasAssignee)) = 2
    /\ \E k \in 1..Len(AllIssues(projects)) :
          HasAssignee(AllIssues(projects)[k]) /\ AllIssues(projects)[k].state = "closed"
    /\ \E k \in 1..Len(AllIssues(projects)) : ~HasAssignee(AllIssues(projects)[k])

\* ------------------------------------------------------------------ C7

\* the logins that are assignee of some issue of the projects
Assignees(projs) ==
    {AllIssues(projs)[k].assignee[1] :
        k \in {k \in 1..Len(AllIssues(projs)) : HasAssignee(AllIssues(projs)[k])}}

\* C7: the leaderboard has exactly one entry per distinct assignee username of
\* the projects' issues, and every entry has assignedCount >= 1.
C7_OneEntryPerAssignee ==
    call.op = "buildContributorLeaderboard" =>
        /\ \A a, b \in 1..Len(call.result) :
              a # b => call.result[a].username # call.result[b].username
        /\ {call.result[c].username : c \in 1..Len(call.result)} = Assignees(projects)
        /\ \A c \in 1..Len(call.result) : call.result[c].assignedCount >= 1

\* one contributor assigned in both repositories, entered once
C7_Witness ==
    /\ call.op = "buildContributorLeaderboard"
    /\ Len(projects[1].issues) >= 1 /\ Len(projects[2].issues) >= 1
    /\ HasAssignee(projects[1].issues[1])
    /\ projects[2].issues[1].assignee = projects[1].issues[1].assignee
    /\ Len(call.result) = 1 /\ call.result[1].assignedCount >= 2

\* ------------------------------------------------------------------ C8

\* the key the claim names for a sort order
ClaimedKey(c, sortBy) ==
    CASE sortBy = "points" -> c.totalPoints
      [] sortBy = "closed" -> c.closedCount
      [] sortBy = "assigned" -> c.assignedCount

\* position, in project order then issue order, of the first issue assigned
\* to username
FirstSeen(projs, username) ==
    CHOOSE k \in 1..Len(AllIssues(projs)) :
        /\ AllIssues(projs)[k].assignee = <<username>>
        /\ \A j \in 1..(k - 1) : AllIssues(projs)[j].assignee # <<username>>

\* C8: the leaderboard is in descending order of the selected key, and
\* contributors with equal keys keep the order in which their first assigned
\* issue was met.
C8_DescendingTiesInEncounterOrder ==
    call.op = "buildContributorLeaderboard" =>
        \A a, b \in 1..Len(call.result) :
            a < b =>
                LET ka == ClaimedKey(call.result[a], call.args[1])
                    kb == ClaimedKey(call.result[b], call.args[1])
                IN  /\ ka >= kb
                    /\ ka = kb => FirstSeen(projects, call.result[a].username)
                                     < FirstSeen(projects, call.result[b].username)

\* three contributors: the one met last leads, the two others tie
C8_Witness ==
    /\ call.op = "buildContributorLeaderboard"
    /\ Len(call.result) = 3
    /\ FirstSeen(projects, call.result[1].username) = 3
    /\ ClaimedKey(call.result[1], call.args[1]) > ClaimedKey(call.result[2], call.args[1])
    /\ ClaimedKey(call.result[2], call.args[1]) = ClaimedKey(call.result[3], call.args[1])

\* ------------------------------------------------------------------ C9

\* the calendar days of the window [D0, D1], both ends included
WindowDays(range) == {d \in IsoDay(NewDate(range[1]))..IsoDay(NewDate(range[2])) : TRUE}

\* C9: each of the four mappings of calculateDailyCounts has as key set
\* exactly the calendar days of [D0, D1], every day starting at 0, and an
\* issue or pull request dated outside the window adds no key and no count.
C9_KeysAreTheDaysOfTheRange ==
    (call.op = "calculateDailyCounts" /\ ~call.result.threw) =>
        LET days == WindowDays(call.args)
            dated == SelectSeq(AllIssues(projects),
                               LAMBDA i : /\ Truthy(i.created_at)
                                          /\ IsoDay(NewDate(i.created_at)) \in days)
        IN  /\ DOMAIN call.result.assigned = days
            /\ DOMAIN call.result.closed = days
            /\ DOMAIN call.result.merged_prs = days
            /\ DOMAIN call.result.open_prs = days
            /\ SumSeq([k \in 1..Len(dated) |-> 1])
                  = Cardinality({<<d, n>> \in days \X (1..Len(dated)) :
                                    /\ d \in DOMAIN call.result.assigned
                                    /\ n <= call.result.assigned[d]})

\* ------------------------------------------------------------------ C10

StatusHolds(issue, flt) == flt.status = "all" \/ issue.state = flt.status

AssignmentHolds(issue, flt) ==
    \/ flt.assignment = "all"
    \/ flt.assignment = "assigned" /\ issue.assignee # <<>>
    \/ flt.assignment = "unassigned" /\ issue.assignee = <<>>

CommentsHold(issue, flt) ==
    \/ flt.comments = "all"
    \/ flt.comments = "has-comments" /\ issue.comments >= 1
    \/ flt.comments = "no-comments" /\ issue.comments = 0

PointsHold(issue, flt) == flt.points = "all" \/ issue.points >= 1

\* flt with every predicate but the named one set to 'all'
Only(flt, key) ==
    [defaultFilters EXCEPT !.status = IF key = "status" THEN flt.status ELSE "all",
                           !.assignment = IF key = "assignment" THEN flt.assignment ELSE "all",
                           !.comments = IF key = "comments" THEN flt.comments ELSE "all",
                           !.points = IF key = "points" THEN flt.points ELSE "all"]

\* C10: filterIssues returns, in original order, exactly the issues that
\* satisfy the status, assignment, comments and points predicates at once; a
\* predicate set to 'all' excludes nothing and each predicate acts
\* independently of the other three.
C10_FourPredicatesAtOnce ==
    call.op = "filterIssues" =>
        LET issues == call.args[1]
            flt == call.args[2]
        IN  /\ call.result
                  = SelectSeq(issues, LAMBDA i : /\ StatusHolds(i, flt)
                                                 /\ AssignmentHolds(i, flt)
                                                 /\ CommentsHold(i, flt)
                                                 /\ PointsHold(i, flt))
            /\ Range(call.result)
                  = Range(filterIssues(issues, Only(flt, "status")))
                    \cap Range(filterIssues(issues, Only(flt, "assignment")))
                    \cap Range(filterIssues(issues, Only(flt, "comments")))
                    \cap Range(filterIssues(issues, Only(flt, "points")))
            /\ (flt.status = "all" /\ flt.assignment = "all" /\ flt.comments = "all"
                /\ flt.points = "all") => call.result = issues

\* all four predicates are switched on and keep one issue of three
C10_Witness ==
    /\ call.op = "filterIssues"
    /\ call.args[2].status = "open" /\ call.args[2].assignment = "assigned"
    /\ call.args[2].comments = "has-comments" /\ call.args[2].points = "has-points"
    /\ Len(call.args[1]) = 3
    /\ Len(call.result) = 1

\* ------------------------------------------------------------------ C11

\* the issues of project passing the assignment, comments and points
\* predicates of flt
PassingOthers(project, flt) ==
    SelectSeq(project.issues, LAMBDA i : /\ AssignmentHolds(i, flt)
                                         /\ CommentsHold(i, flt)
                                         /\ PointsHold(i, flt))

\* C11: with filters.status = 'open', applyFilters gives every project
\* filteredStats.closed = 0 and filteredStats.total = filteredStats.open = the
\* number of its open issues passing the other three predicates.
C11_OpenFilterCountsOnlyOpen ==
    (call.op = "applyFilters" /\ call.args[2].status = "open") =>
        /\ Len(call.result) = Len(call.args[1])
        /\ \A p \in 1..Len(call.result) :
              LET open == SelectSeq(PassingOthers(call.args[1][p], call.args[2]),
                                    LAMBDA i : i.state = "open")
              IN  /\ call.result[p].filteredStats.closed = 0
                  /\ call.result[p].filteredStats.total = Len(open)
                  /\ call.result[p].filteredStats.open = Len(open)

\* a project with 3 open and 2 closed issues, other filters 'all', is given
\* total 3, open 3, closed 0
C11_Witness ==
    /\ call.op = "applyFilters"
    /\ call.args[2] = defaultFilters
    /\ call.args[1][1].stats.open = 3 /\ call.args[1][1].stats.closed = 2
    /\ call.result[1].filteredStats.total = 3
    /\ call.result[1].filteredStats.open = 3
    /\ call.result[1].filteredStats.closed = 0

\* ------------------------------------------------------------------ C12

\* C12: applying the same filters a second time, to the same project list or
\* to the list the first application returned, yields for every project the
\* filteredIssues and the filteredStats of the first application.
C12_ApplyFiltersIdempotent ==
    call.op = "applyFiltersAgain" =>
        /\ Len(call.result) = Len(call.first)
        /\ \A p \in 1..Len(call.result) :
              /\ call.result[p].filteredIssues = call.first[p].filteredIssues
              /\ call.result[p].filteredStats = call.first[p].filteredStats
              /\ call.result[p].issues = call.first[p].issues

\* the second application ran over the list the first one returned, which
\* had removed some but not all issues of the first project
C12_Witness ==
    /\ call.op = "applyFiltersAgain"
    /\ call.args[1] = call.first
    /\ call.first[1].filteredStats.total > 0
    /\ call.first[1].filteredStats.total < call.first[1].stats.total
    /\ call.result = call.first

\* ------------------------------------------------------------------ C13

\* the key the projects are ordered by: the configured rank, 999 when unset,
\* or the filtered statistics when present and the unfiltered ones otherwise
ClaimedProjectKey(project, sortBy) ==
    LET shown == IF "filteredStats" \in DOMAIN project
                 THEN project.filteredStats ELSE project.stats
    IN  CASE sortBy = "points" -> shown.points
          [] sortBy = "issues" -> shown.total
          [] sortBy = "closed" -> shown.closed
          [] sortBy = "name" -> project.name
          [] OTHER -> IF project.order.tag = "undefined" THEN 999 ELSE project.order.v

\* result holds the records of input, each once
IsPermutation(result, input) ==
    /\ Len(result) = Len(input)
    /\ \E f \in [1..Len(input) -> 1..Len(input)] :
          /\ \A i, j \in 1..Len(input) : f[i] = f[j] => i = j
          /\ \A i \in 1..Len(input) : result[i] = input[f[i]]

\* C13: sortProjects returns a permutation of its input; for 'order',
\* 'points', 'issues' and 'closed' the keys are non-decreasing for 'asc' and
\* non-increasing for 'desc'.
C13_SortedPermutation ==
    call.op = "sortProjects" =>
        LET input == call.args[1]
            sortBy == call.args[2]
            sortOrder == call.args[3]
            Key(k) == ClaimedProjectKey(call.result[k], sortBy)
        IN  /\ IsPermutation(call.result, input)
            /\ sortBy \in {"order", "points", "issues", "closed"} =>
                  \A k \in 1..(Len(call.result) - 1) :
                      IF sortOrder = "asc" THEN Key(k) <= Key(k + 1) ELSE Key(k) >= Key(k + 1)

\* three projects with three different filtered point totals, sorted
\* descending into an order that differs from the configured one
C13_Witness ==
    /\ call.op = "sortProjects"
    /\ call.args[2] = "points" /\ call.args[3] = "desc"
    /\ "filteredStats" \in DOMAIN call.args[1][1]
    /\ call.result # call.args[1]
    /\ call.result[1].filteredStats.points > call.result[2].filteredStats.points
    /\ call.result[2].filteredStats.points > call.result[3].filteredStats.points
    /\ call.result[1].filteredStats.points # call.result[1].stats.points

\* ------------------------------------------------------------------ C14

\* the position of the project with this id in the list
PositionOf(projs, id) == CHOOSE k \in 1..Len(projs) : projs[k].id = id

\* C14: two projects with equal sort keys appear in the output of
\* sortProjects in the same relative order as in the input, for 'asc' and for
\* 'desc'.
C14_SortIsStable ==
    call.op = "sortProjects" =>
        \A i, j \in 1..Len(call.result) :
            (/\ i < j
             /\ ClaimedProjectKey(call.result[i], call.args[2])
                   = ClaimedProjectKey(call.result[j], call.args[2]))
            => PositionOf(call.args[1], call.result[i].id)
                  < PositionOf(call.args[1], call.result[j].id)

\* a descending sort in which the first and the last project of the input
\* tie and the project between them moves in front of both
C14_Witness ==
    /\ call.op = "sortProjects"
    /\ call.args[3] = "desc"
    /\ call.args[2] = "issues"
    /\ ClaimedProjectKey(call.args[1][1], "issues") = ClaimedProjectKey(call.args[1][3], "issues")
    /\ ClaimedProjectKey(call.args[1][2], "issues") > ClaimedProjectKey(call.args[1][1], "issues")
    /\ call.result = <<call.args[1][2], call.args[1][1], call.args[1][3]>>

\* ------------------------------------------------------------------ C15

\* the ids of the projects of a list, in order
IdsOf(projs) == [k \in 1..Len(projs) |-> projs[k].id]

\* C15: the rendered project list holds, in sorted order, exactly the
\* projects with at least one issue passing the current filters, after any
\* sequence of filter changes; a hidden project stays in state.projects with
\* the issues that were fetched and counts in the global stats and in the
\* contributor leaderboard.
C15_HidingIsDisplayOnly ==
    (view.rendered /\ activeTab = "repos") =>
        LET sorted == sortProjects(applyFilters(projects, filters),
                                   filters.sortBy, filters.sortOrder)
            shown == SelectSeq(sorted, LAMBDA p : filterIssues(p.issues, filters) # <<>>)
            all == AllIssues(projects)
            fetched == fetchAllProjectsData(config.projects, config.settings, remote)
        IN  /\ IdsOf(view.leaderboard) = IdsOf(shown)
            /\ \A k \in 1..Len(view.leaderboard) :
                  view.leaderboard[k].filteredStats.total > 0
            /\ projects # <<>> => IdsOf(projects) = IdsOf(fetched)
            /\ \A p \in 1..Len(projects) : projects[p].issues = fetched[p].issues
            /\ view.stats.totalPoints = SumSeq([k \in 1..Len(all) |-> all[k].points])
            /\ view.stats.withAssignees
                  = Len(SelectSeq(all, LAMBDA i : i.assignee # <<>>))
            /\ {contributors[k].username : k \in 1..Len(contributors)}
                  = {all[k].assignee[1] : k \in {n \in 1..Len(all) : all[n].assignee # <<>>}}

\* after a filter change alpha, whose only issue is closed, is hidden while
\* beta is shown; alpha's issue is still loaded and counted
C15_Witness ==
    /\ view.rendered /\ activeTab = "repos"
    /\ filters.comments = "has-comments"
    /\ IdsOf(view.leaderboard) = <<"beta">>
    /\ Len(projects[1].issues) = 1
    /\ projects[1].issues[1].assignee = <<"amal">>
    /\ view.stats.withAssignees = 3
    /\ \E k \in 1..Len(contributors) : contributors[k].username = "amal"

\* ------------------------------------------------------------------ C16

C17_DailyCountsNeverThrows ==
    call.op = "calculateDailyCounts" => ~call.result.threw

\* ------------------------------------------------------------------ C18

NumbersOf(issues) == [k \in 1..Len(issues) |-> issues[k].number]

\* C19: for every contributor of the leaderboard, closedCount is the number
\* of their assigned issues closed with a closing timestamp on or after the
\* threshold, closedIssuesWithPoints holds those of them with points > 0,
\* totalPoints is the sum of the points of closedIssuesWithPoints, and an
\* assigned issue that is open or has no such timestamp adds to assignedCount
\* only.
C19_ContributorCounts ==
    call.op = "buildContributorLeaderboard" =>
        \A n \in 1..Len(call.result) :
            LET c == call.result[n]
                T == config.settings.thresholdDate
                mine == SelectSeq(AllIssues(projects),
                                  LAMBDA i : i.assignee = <<c.username>>)
                counted == SelectSeq(mine, LAMBDA i : /\ i.state = "closed"
                                                      /\ ClosedOnOrAfter(i, T))
                scored == SelectSeq(counted, LAMBDA i : i.points > 0)
            IN  /\ c.assignedCount = Len(mine)
                /\ NumbersOf(c.assignedIssues) = NumbersOf(mine)
                /\ c.closedCount = Len(counted)
                /\ NumbersOf(c.closedIssuesWithPoints) = NumbersOf(scored)
                /\ c.totalPoints
                      = SumSeq([k \in 1..Len(c.closedIssuesWithPoints) |->
                                   c.closedIssuesWithPoints[k].points])
                /\ c.totalPoints = SumSeq([k \in 1..Len(scored) |-> scored[k].points])

\* amal has two issues closed since the threshold, one of them without
\* points; badr's only issue is open
C19_Witness ==
    /\ call.op = "buildContributorLeaderboard"
    /\ \E a, b \in 1..Len(call.result) :
          /\ call.result[a].username = "amal"
          /\ call.result[a].assignedCount = 2
          /\ call.result[a].closedCount = 2
          /\ Len(call.result[a].closedIssuesWithPoints) = 1
          /\ call.result[a].totalPoints = 5
          /\ call.result[b].username = "badr"
          /\ call.result[b].assignedCount = 1
          /\ call.result[b].closedCount = 0
          /\ call.result[b].totalPoints = 0

\* ------------------------------------------------------------------ C20

\* the number of issues of the projects satisfying Test
CountIssues(projs, Test(_)) == Len(SelectSeq(AllIssues(projs), Test))

\* C20: for every day d of the range, assigned[d] is the number of issues
\* created on day d and closed[d] is the number of closed issues whose closing
\* timestamp lies on day d.
C20_IssueCountsPerDay ==
    (call.op = "calculateDailyCounts" /\ ~call.result.threw) =>
        \A d \in WindowDays(call.args) :
            /\ d \in DOMAIN call.result.assigned
            /\ d \in DOMAIN call.result.closed
            /\ call.result.assigned[d]
                  = CountIssues(projects, LAMBDA i : /\ i.created_at.tag = "date"
                                                     /\ i.created_at.v \div TicksPerDay = d)
            /\ call.result.closed[d]
                  = CountIssues(projects, LAMBDA i : /\ i.state = "closed"
                                                     /\ i.closed_at.tag = "date"
                                                     /\ i.closed_at.v \div TicksPerDay = d)

\* ------------------------------------------------------------------ C21

\* the pull requests of the projects satisfying Test
PullsWhere(projs, Test(_)) == SelectSeq(AllPulls(projs), Test)

\* the sum of a count mapping over its keys
RECURSIVE SumOver(_, _)
SumOver(counts, keys) ==
    IF keys = {} THEN 0
    ELSE LET d == CHOOSE x \in keys : TRUE
         IN  counts[d] + SumOver(counts, keys \ {d})

\* C21: for every day d of the range, merged_prs[d] is the number of pull
\* requests with state closed whose closing timestamp lies on day d, merged
\* or not, and open_prs[d] is the number of pull requests with state open
\* created on day d; a pull request is counted in at most one of the two
\* series, and a closed one without a closing timestamp in neither.
C21_PullCountsPerDay ==
    (call.op = "calculateDailyCounts" /\ ~call.result.threw) =>
        /\ \A d \in WindowDays(call.args) :
              /\ d \in DOMAIN call.result.merged_prs
              /\ d \in DOMAIN call.result.open_prs
              /\ call.result.merged_prs[d]
                    = Len(PullsWhere(projects,
                                     LAMBDA pr : /\ pr.state = "closed"
                                                 /\ pr.closed_at.tag = "date"
                                                 /\ pr.closed_at.v \div TicksPerDay = d))
              /\ call.result.open_prs[d]
                    = Len(PullsWhere(projects,
                                     LAMBDA pr : /\ pr.state = "open"
                                                 /\ pr.created_at.tag = "date"
                                                 /\ pr.created_at.v \div TicksPerDay = d))
        /\ SumOver(call.result.merged_prs, DOMAIN call.result.merged_prs)
              + SumOver(call.result.open_prs, DOMAIN call.result.open_prs)
              <= Len(PullsWhere(projects,
                                LAMBDA pr : ~(pr.state = "closed" /\ pr.closed_at.tag # "date")))

\* ------------------------------------------------------------------ C22

\* the issues of a project passing all four predicates of flt
PassingAll(project, flt) ==
    SelectSeq(project.issues, LAMBDA i : /\ StatusHolds(i, flt)
                                         /\ AssignmentHolds(i, flt)
                                         /\ CommentsHold(i, flt)
                                         /\ PointsHold(i, flt))

\* C22: after every filter change made while the repos tab is active, the
\* rendered project list is getVisibleProjects(sortProjects(applyFilters(
\* state.projects, state.filters), sortBy, sortOrder)) for the filters as
\* they are after the change: no render pass shows the filteredIssues or
\* filteredStats of an older filter value.
C22_FilterChangeRendersCurrentFilters ==
    [][(filters' # filters /\ boot = "ready" /\ activeTab = "repos") =>
          LET shown == view'.leaderboard
          IN  /\ shown = getVisibleProjects(
                             sortProjects(applyFilters(projects', filters'),
                                          filters'.sortBy, filters'.sortOrder))
              /\ \A k \in 1..Len(shown) :
                    /\ NumbersOf(shown[k].filteredIssues)
                          = NumbersOf(PassingAll(shown[k], filters'))
                    /\ shown[k].filteredStats.total = Len(PassingAll(shown[k], filters'))
                    /\ shown[k].filteredStats.points
                          = SumSeq([n \in 1..Len(PassingAll(shown[k], filters')) |->
                                       PassingAll(shown[k], filters')[n].points])]_vars

\* the status filter has been changed to closed on the repos tab: a shown
\* project lists fewer issues than it holds, all of them closed
C22_Witness ==
    /\ boot = "ready" /\ activeTab = "repos"
    /\ filters.status = "closed"
    /\ \E k \in 1..Len(view.leaderboard) :
          /\ Len(view.leaderboard[k].filteredIssues) < Len(view.leaderboard[k].issues)
          /\ view.leaderboard[k].filteredIssues # <<>>
          /\ \A n \in 1..Len(view.leaderboard[k].filteredIssues) :
                view.leaderboard[k].filteredIssues[n].state = "closed"

\* ------------------------------------------------------------------ C23

\* C23: render() never executes while state.config is null; a tab click,
\* whose listener stores the tab and calls render(), happens only once the
\* configuration is loaded, never before loadConfig has resolved and never
\* after it has failed.
C23_RenderOnlyWithConfig ==
    [][activeTab' # activeTab => config.tag # "null"]_vars

\* ------------------------------------------------------------------ C24

\* C24: state.isLoading is true whenever at least one fetchData call is in
\* flight, also when calls overlap (a refresh click or a token save during
\* the initial load or during another refresh); it is false only once the
\* last call in flight has completed.
C24_LoadingWhileInFlight ==
    inflight # <<>> => isLoading

\* ------------------------------------------------------------------ C25

\* C25: when fetchData calls overlap, then once all of them have completed
\* state.projects holds the result of the call started last, in whatever
\* order the answers of the calls arrived.
C25_LastStartedWins ==
    (call.op = "fetchData" /\ inflight = <<>> /\ ~fetchAllProjectsDataRejects(call.args)) =>
        projects = fetchAllProjectsData(config.projects, config.settings, call.args)

\* ------------------------------------------------------------------ C26

\* C26: if fetchAllProjectsData fails inside fetchData, the error does not
\* reach the caller, state.projects and state.contributors keep the values
\* they had, state.isLoading is false when fetchData returns, and the render
\* pass that follows shows the previous data.
C26_FailedFetchKeepsState ==
    [][\A k \in 1..Len(inflight) :
          ( /\ inflight' = SubSeq(inflight, 1, k - 1) \o SubSeq(inflight, k + 1, Len(inflight))
            /\ fetchAllProjectsDataRejects(inflight[k].answers) ) =>
              /\ projects' = projects
              /\ contributors' = contributors
              /\ isLoading' = FALSE
              /\ view'.rendered
              /\ view'.stats = calculateGlobalStats(projects, config.settings.thresholdDate)
              /\ activeTab = "repos" =>
                    view'.leaderboard
                       = getVisibleProjects(sortProjects(applyFilters(projects, filters),
                                                         filters.sortBy, filters.sortOrder))
              /\ activeTab # "repos" => view'.contributors = contributors]_vars

\* the call started last got JSON that is not a list, every call has
\* returned, and the page still shows the projects of the call before it
C26_Witness ==
    /\ call.op = "fetchData"
    /\ fetchAllProjectsDataRejects(call.args)
    /\ inflight = <<>>
    /\ ~isLoading
    /\ Len(projects) = 2
    /\ contributors # <<>>
    /\ view.rendered
    /\ activeTab = "repos"
    /\ view.leaderboard # <<>>
    /\ view.leaderboard[1].issues # <<>>

\* ------------------------------------------------------------------ C27

\* C27: whenever the issue modal is active, its body belongs to
\* currentIssue: it shows that issue's badges with the loading state or with
\* that issue's comments, and comments of an issue opened earlier that arrive
\* late never replace the body of the modal showing another issue.
C27_BodyBelongsToCurrentIssue ==
    modal.active =>
        /\ modal.body.issue = modal.currentIssue
        /\ \A n \in 1..Len(modal.body.comments) :
              modal.body.comments[n].on = modal.currentIssue

\* ------------------------------------------------------------------ C28

C29_DayItemsStayCached ==
    view.dayModal.open =>
        \A k \in 1..Len(view.dayModal.items) :
            <<view.dayModal.items[k].repo, view.dayModal.items[k].number>> \in view.issueCache

\* ------------------------------------------------------------------ C30

\* the record of a project none of whose requests brought anything
EmptyStats == [open |-> 0, closed |-> 0, assigned |-> 0, total |-> 0, points |-> 0,
               comments |-> 0]

\* C30: fetchAllProjectsData returns exactly one record per configured
\* project, record i belonging to configured project i in whatever order the
\* answers arrive; an issues or pulls request that fails or is rejected gives
\* that project an empty issue list (with all-zero stats) or an empty pull
\* request list and changes nothing in the records of the other projects.
C30_OneRecordPerProjectInOrder ==
    call.op = "fetchAllProjectsData" =>
        LET r == call.result
            whole == fetchAllProjectsData(config.projects, config.settings, SettleData)
        IN  /\ Len(r) = Len(config.projects)
            /\ \A i \in 1..Len(config.projects) :
                  /\ r[i].id = config.projects[i].id
                  /\ r[i].owner = config.projects[i].owner
                  /\ r[i].repo = config.projects[i].repo
                  /\ remote[i].issues.status # "ok" =>
                        r[i].issues = <<>> /\ r[i].stats = EmptyStats
                  /\ remote[i].pulls.status # "ok" => r[i].prs = <<>>
                  /\ remote[i].issues.status = "ok" =>
                        r[i].issues = whole[i].issues /\ r[i].stats = whole[i].stats
                  /\ remote[i].pulls.status = "ok" => r[i].prs = whole[i].prs

\* gamma's callback settles first and alpha's last; beta's issues request is
\* rejected and alpha's pulls request is refused, and the other lists are whole
C30_Witness ==
    /\ call.op = "fetchAllProjectsData"
    /\ call.args = <<3, 1, 2>>
    /\ remote[2].issues.status = "rejected"
    /\ remote[1].pulls.status = "http-error"
    /\ IdsOf(call.result) = <<"alpha", "beta", "gamma">>
    /\ call.result[2].issues = <<>> /\ call.result[2].prs # <<>>
    /\ call.result[1].issues # <<>> /\ call.result[1].prs = <<>>
    /\ call.result[3].issues # <<>> /\ call.result[3].prs # <<>>

====
